---- MODULE Spec2Model ----
(***************************************************************************)
(* Eligibility evaluation and certificate generation pipeline of           *)
(* openedx_certificates: the credential ledger (ExternalCertificate rows), *)
(* the Celery tasks that fill it and the manual generation entry point.    *)
(***************************************************************************)
EXTENDS Integers, Sequences, FiniteSets, TLC

\* ------------------------------------------------------------------ bounds
NumUsers == 2
NumConfigs == 2
MaxTasks == 2
MaxListLen == 2
MaxCalls == 1
MaxRows == 2
MaxGrades == 2
MaxFailures == 1
MaxPages == 2
MaxNameLen == 2
MaxRuns == 2
MaxPathLen == 3

Users == 1..NumUsers
ConfigIds == 1..NumConfigs

\* ExternalCertificate.Status (models.py)
GENERATING == "generating"
AVAILABLE == "available"
ERROR == "error"
INVALIDATED == "invalidated"
Status == {GENERATING, AVAILABLE, ERROR, INVALIDATED}

\* The (course_id, certificate_type) of configuration c; unique_together on
\* the configuration makes the pair differ from one configuration to another.
course_id(c) == (c + 1) \div 2
certificate_type(c) == ((c + 1) % 2) + 1

\* The value a not yet looked-up certificate variable holds.
NoCertificate == [uuid |-> 0]
\* download_url = models.URLField(blank=True): the empty URL.
NoUrl == 0

\* Before any call of api.generate_certificate_for_user.
NoCall == [outcome |-> "none"]

\* An account that is active and has a usable password.
Reachable == [is_active |-> TRUE, has_usable_password |-> TRUE]

VARIABLES
    ledger,      \* the ExternalCertificate table: a set of rows
    uuid4,       \* number of identifiers uuid.uuid4 has handed out
    tasks,       \* generate_certificate_for_user_task instances, by request id
    calls_made,  \* number of api.generate_certificate_for_user calls so far
    last_call,   \* the last api.generate_certificate_for_user call, its outcome
    rendered,    \* per (user, configuration): successful generation_func calls
    render_failures, \* number of generation_func calls that raised
    accounts,    \* per user: is_active and has_usable_password()
    filter_call, \* the last filter_out_user_ids_with_certificates call
    grades_call, \* the last _are_grades_passing_criteria call
    batch_call, \* the last retrieve_subsection_grades call
    completions_call, \* the running retrieve_course_completions call
    options_call, \* the options a configuration hands to its two functions
    pdf_call, \* the arguments and settings of the generate_pdf_certificate call, its result
    clean_call, \* the last ExternalCertificateType.clean call
    run_call, \* the last run of generation for a configuration, its outcome
    save_call, \* the _save_certificate call: the files of the default storage, its arguments
    configurations, \* the ExternalCertificateCourseConfiguration table, by id
    periodic_tasks, \* the PeriodicTask table of django_celery_beat, by id
    runs         \* the generate_certificates_task instances dispatched so far

\* The tables of the scheduler: the configurations, their periodic tasks and
\* the runs dispatched for them.
beat_vars == <<configurations, periodic_tasks, runs>>

\* The calls of the functions checked on their own, and the scheduler.
pure_vars ==
    <<filter_call, grades_call, batch_call, completions_call, options_call,
      pdf_call,
      clean_call,
      run_call,
      save_call, beat_vars>>
NoFilterCall == [config_id |-> 0]
NoGradesCall == [result |-> "none"]
NoBatchCall == [called |-> FALSE]
NoCompletionsCall == [pc |-> "idle"]
NoOptionsCall == [called |-> {}]
NoPdfCall == [called |-> FALSE]
NoCleanCall == [called |-> FALSE]
NoRunCall == [called |-> FALSE]
NoSaveCall == [called |-> FALSE]
NoConfigurations == <<>>
NoPeriodicTasks == <<>>
NoRuns == <<>>

vars == <<ledger, uuid4, tasks, last_call, calls_made, rendered,
          render_failures, accounts, pure_vars>>

\* ------------------------------------------------------------- list helpers
Range(s) == {s[i] : i \in 1..Len(s)}
SeqsUpTo(S, n) == UNION {[1..k -> S] : k \in 0..n}
\* list(a_set): the elements once each, in an order the set decides.
Orderings(S) == {s \in [1..Cardinality(S) -> S] : Range(s) = S}

\* --------------------------------------------------------- the ledger (ORM)
\* (the lookup is by user alone)
objects_filter_by_user(rows, u, c) == {r \in rows : r.user_id = u}

\* ExternalCertificate.objects.filter(user_id=, course_id=, certificate_type=)
objects_filter(rows, u, c) ==
    {r \in rows : r.user_id = u /\ r.course_id = course_id(c)
                  /\ r.certificate_type = certificate_type(c)}

\* (the saved row gets a new primary key)
save_under_new_key(rows, certificate) ==
    {r \in rows : r.uuid # certificate.uuid}
        \cup {[certificate EXCEPT !.uuid = @ + NumUsers * (NumConfigs + 1)]}

\* Model.save() of a row that has a primary key: the row of that key is
\* replaced by the in-memory instance, every field of it.
save(rows, certificate) ==
    {r \in rows : r.uuid # certificate.uuid} \cup {certificate}

\* (a database without the constraint)
unique_together_unenforced(rows, u, c) == FALSE

\* unique_together = (('user_id', 'course_id', 'certificate_type'),): whether
\* an INSERT for (u, c) is refused by the database.
unique_together_violated(rows, u, c) == objects_filter(rows, u, c) # {}

\* (only AVAILABLE certificates suppress)
filter_out_only_available(rows, c, user_ids) ==
    Range(user_ids) \ {r.user_id : r \in {x \in rows :
                          /\ x.course_id = course_id(c)
                          /\ x.certificate_type = certificate_type(c)
                          /\ x.status = AVAILABLE}}

\* (certificates of another course or certificate type suppress too)
filter_out_any_course(rows, c, user_ids) ==
    Range(user_ids) \ {r.user_id : r \in {x \in rows : ~(x.status = ERROR)}}

\* (certificates in ERROR suppress too)
filter_out_any_status(rows, c, user_ids) ==
    Range(user_ids) \ {r.user_id : r \in {x \in rows :
                          /\ x.course_id = course_id(c)
                          /\ x.certificate_type = certificate_type(c)}}

\* filter_out_user_ids_with_certificates: the ids of user_ids without a row
\* for this configuration's (course_id, certificate_type) in a status other
\* than ERROR.
filter_out_user_ids_with_certificates(rows, c, user_ids) ==
    LET users_ids_with_certificates ==
            {r.user_id : r \in {x \in rows :
                /\ x.course_id = course_id(c)
                /\ x.certificate_type = certificate_type(c)
                /\ ~(x.status = ERROR)}}
    IN Range(user_ids) \ users_ids_with_certificates

\* ------------------------------------------------------------------- Init
Init ==
    /\ ledger = {}
    /\ uuid4 = 0
    /\ tasks = <<>>
    /\ last_call = NoCall
    /\ calls_made = 0
    /\ rendered = [u \in Users |-> [c \in ConfigIds |-> 0]]
    /\ render_failures = 0
    /\ accounts = [u \in Users |-> Reachable]
    /\ filter_call = NoFilterCall
    /\ save_call = NoSaveCall
    /\ run_call = NoRunCall
    /\ clean_call = NoCleanCall
    /\ configurations = NoConfigurations
    /\ periodic_tasks = NoPeriodicTasks
    /\ runs = NoRuns
    /\ pdf_call = NoPdfCall
    /\ options_call = NoOptionsCall
    /\ completions_call = NoCompletionsCall
    /\ batch_call = NoBatchCall
    /\ grades_call = NoGradesCall

\* generate_certificate_for_user_task.delay(config_id, user_id)
delay(queue, c, u, origin, force) ==
    Append(queue, [config_id |-> c, user_id |-> u, pc |-> "queued",
                   certificate |-> NoCertificate, origin |-> origin,
                   force |-> force, sent |-> <<>>])

\* ------------------------------------------------- retrieval (eligibility)
\* What the configured retrieval_func can hand back: a list of user ids, or
\* an exception of the grading / completion / enrolment lookups.
RetrievalError == <<0>>
RetrievalResults == SeqsUpTo(Users, MaxListLen) \cup {RetrievalError}

\* get_eligible_user_ids(): the list the retrieval_func returned.
get_eligible_user_ids(result) == result

\* get_eligible_user_ids(user_id), as api.py calls it: the eligible ids
\* narrowed to user_id.
get_eligible_user_ids_for(result, u) == SelectSeq(result, LAMBDA x : x = u)

\* ----------------------------------------- generate_certificates_task
\* generate_certificate_for_user_task.delay for each id of a list, in order.
RECURSIVE delay_all(_, _, _)
delay_all(queue, c, user_ids) ==
    IF user_ids = <<>> THEN queue
    ELSE delay_all(delay(queue, c, Head(user_ids), "run", FALSE), c,
                   Tail(user_ids))

\* tasks.py 41-48: look the eligible ids up, drop those with a certificate,
\* dispatch one per-learner task for each id left. A retrieval error
\* propagates out of the task before anything is dispatched.
generate_certificates_task(rows, queue, c, result) ==
    IF result = RetrievalError THEN {queue}
    ELSE {delay_all(queue, c, filtered_user_ids) :
            filtered_user_ids \in Orderings(
                filter_out_user_ids_with_certificates(
                    rows, c, get_eligible_user_ids(result)))}

\* One run of generate_certificates_task whose retrieval hands back one of
\* results.
GenerateCertificatesTaskOn(c, results) ==
    /\ Len(tasks) < MaxTasks
    /\ \E queue \in UNION {generate_certificates_task(ledger, tasks, c, result) :
                            result \in results} :
         /\ Len(queue) <= MaxTasks
         /\ tasks' = queue
    /\ UNCHANGED <<ledger, uuid4, last_call, calls_made, rendered, render_failures,
                   accounts,
                   pure_vars>>

GenerateCertificatesTask(c) == GenerateCertificatesTaskOn(c, RetrievalResults)

\* ------------------------ generate_certificate_for_user (models.py 175-231)
\* models.py 194-198: ExternalCertificate.objects.get(...) finds the row, or
\* raises DoesNotExist (MultipleObjectsReturned when there are several).
objects_get(rows, u, c) ==
    LET found == objects_filter(rows, u, c)
    IN IF found = {} THEN [pc |-> "missing", certificate |-> NoCertificate]
       ELSE IF Cardinality(found) > 1
            THEN [pc |-> "multiple", certificate |-> NoCertificate]
            ELSE [pc |-> "found", certificate |-> CHOOSE r \in found : TRUE]

Lookup(t) ==
    /\ tasks[t].pc = "queued"
    /\ LET got == objects_get(ledger, tasks[t].user_id, tasks[t].config_id)
       IN tasks' = [tasks EXCEPT ![t].pc = got.pc,
                                 ![t].certificate = got.certificate]
    /\ UNCHANGED <<ledger, uuid4, last_call, calls_made, rendered, render_failures,
                   accounts,
                   pure_vars>>

\* models.py 187-190: the learner's name as the account has it now. Names
\* are numbered by learner; FormerName is a name an account had before.
FormerName == 0
user_full_name(u) == u

\* (the name of the earlier attempt is left on the row)
begin_existing_keeping_name(certificate, t) ==
    [certificate EXCEPT !.status = GENERATING, !.generation_task_id = t]

\* models.py 199-202: the found row gets the learner's current name, is set
\* to GENERATING and saved.
begin_existing(certificate, t) ==
    [certificate EXCEPT !.user_full_name = user_full_name(certificate.user_id),
                        !.status = GENERATING, !.generation_task_id = t]

SaveGenerating(t) ==
    /\ tasks[t].pc = "found"
    /\ LET certificate == begin_existing(tasks[t].certificate, t)
       IN /\ ledger' = save(ledger, certificate)
          /\ tasks' = [tasks EXCEPT ![t].pc = "generating",
                                    ![t].certificate = certificate]
    /\ UNCHANGED <<uuid4, last_call, calls_made, rendered, render_failures,
                   accounts,
                   pure_vars>>

\* (a refused create hands back the row that is there, as get_or_create would)
objects_get_or_create(rows, u, c, t, id) ==
    IF objects_filter(rows, u, c) # {}
    THEN [pc |-> "generating",
          certificate |-> CHOOSE r \in objects_filter(rows, u, c) : TRUE,
          rows |-> rows]
    ELSE [pc |-> "generating",
          certificate |-> [uuid |-> id, user_id |-> u,
                           user_full_name |-> user_full_name(u),
                           course_id |-> course_id(c),
                           certificate_type |-> certificate_type(c),
                           status |-> GENERATING, download_url |-> NoUrl,
                           generation_task_id |-> t],
          rows |-> rows \cup {[uuid |-> id, user_id |-> u,
                               user_full_name |-> user_full_name(u),
                               course_id |-> course_id(c),
                               certificate_type |-> certificate_type(c),
                               status |-> GENERATING, download_url |-> NoUrl,
                               generation_task_id |-> t]}]

\* models.py 203-211: ExternalCertificate.objects.create(...): a fresh uuid,
\* status GENERATING; the database refuses a second row of the same
\* (user_id, course_id, certificate_type) with an IntegrityError.
objects_create(rows, u, c, t, id) ==
    IF unique_together_violated(rows, u, c)
    THEN [pc |-> "integrity_error", certificate |-> NoCertificate, rows |-> rows]
    ELSE LET certificate == [uuid |-> id, user_id |-> u,
                             user_full_name |-> user_full_name(u),
                             course_id |-> course_id(c),
                             certificate_type |-> certificate_type(c),
                             status |-> GENERATING, download_url |-> NoUrl,
                             generation_task_id |-> t]
         IN [pc |-> "generating", certificate |-> certificate,
             rows |-> rows \cup {certificate}]

Create(t) ==
    /\ tasks[t].pc = "missing"
    /\ LET made == objects_create(ledger, tasks[t].user_id, tasks[t].config_id,
                                  t, uuid4 + 1)
       IN /\ ledger' = made.rows
          /\ uuid4' = IF made.pc = "generating" THEN uuid4 + 1 ELSE uuid4
          /\ tasks' = [tasks EXCEPT ![t].pc = made.pc,
                                    ![t].certificate = made.certificate]
    /\ UNCHANGED <<last_call, calls_made, rendered, render_failures,
                   accounts,
                   pure_vars>>

\* What a finished attempt still holds of its certificate: the identifier.
worked_on(certificate) == [uuid |-> certificate.uuid]

\* The URL generation_func returns for a certificate: the path is keyed by
\* the certificate's uuid.
url_of(id) == id

\* (the row is saved AVAILABLE without the URL)
complete_generation_without_url(certificate) ==
    [certificate EXCEPT !.status = AVAILABLE]

\* models.py 219-221: generation_func returned; the row is saved AVAILABLE.
complete_generation(certificate) ==
    [certificate EXCEPT !.download_url = url_of(certificate.uuid),
                        !.status = AVAILABLE]

\* (the account is not looked at)
whoever(account) == TRUE

\* models.py 230: user.is_active and user.has_usable_password()
is_active_with_usable_password(account) ==
    account.is_active /\ account.has_usable_password

\* models.py 283-298: ExternalCertificate.send_email hands ace.send a message
\* for the user with the certificate's download_url as certificate_link.
send_email(sent, certificate) ==
    Append(sent, [user_id |-> certificate.user_id,
                  certificate_link |-> certificate.download_url])

\* The row is saved AVAILABLE with its URL; then, in the else branch, the
\* message is sent when the account is active with a usable password.
Generated(t) ==
    /\ tasks[t].pc = "generating"
    /\ LET certificate == complete_generation(tasks[t].certificate)
       IN /\ ledger' = save(ledger, certificate)
          /\ tasks' = [tasks EXCEPT
                ![t].pc = "done",
                ![t].certificate = worked_on(certificate),
                ![t].sent = IF is_active_with_usable_password(
                                   accounts[tasks[t].user_id])
                            THEN send_email(@, certificate)
                            ELSE @]
    /\ rendered' = [rendered EXCEPT ![tasks[t].user_id][tasks[t].config_id] = @ + 1]
    /\ UNCHANGED <<uuid4, last_call, calls_made, render_failures,
                   accounts,
                   pure_vars>>

\* (an AVAILABLE row is left as another attempt made it)
fail_generation_keeping_available(rows, certificate) ==
    IF \E r \in rows : r.uuid = certificate.uuid /\ r.status = AVAILABLE
    THEN rows
    ELSE {r \in rows : r.uuid # certificate.uuid}
             \cup {[certificate EXCEPT !.status = ERROR]}

\* (the failure is raised without saving the row)
fail_generation_unsaved(rows, certificate) == rows

\* models.py 222-226: generation_func raised; the row is saved ERROR and
\* CertificateGenerationError is raised.
fail_generation(rows, certificate) ==
    save(rows, [certificate EXCEPT !.status = ERROR])

GenerationFailed(t) ==
    /\ tasks[t].pc = "generating"
    /\ ledger' = fail_generation(ledger, tasks[t].certificate)
    /\ tasks' = [tasks EXCEPT ![t].pc = "raised",
                              ![t].certificate = worked_on(@)]
    /\ render_failures' = render_failures + 1
    /\ UNCHANGED <<uuid4, last_call, calls_made, rendered, accounts,
                   pure_vars>>

\* ------------------------------ api.generate_certificate_for_user (55-76)
\* api.py 64-66: ExternalCertificateCourseConfiguration.objects.get(...).
configuration_of(course, type) ==
    {c \in ConfigIds : course_id(c) = course /\ certificate_type(c) = type}

\* (force is not consulted)
not_eligible_whatever_force(force, result, u) ==
    get_eligible_user_ids_for(result, u) = <<>>

\* api.py 72: not force and not certificate_config.get_eligible_user_ids(user_id)
not_eligible(force, result, u) ==
    ~force /\ get_eligible_user_ids_for(result, u) = <<>>

\* The outcome of the call: an exception, or "enqueued".
api_outcome(k, u, force, result) ==
    IF configuration_of(course_id(k), certificate_type(k)) = {} THEN "DoesNotExist"
    ELSE IF ~force /\ result = RetrievalError THEN "RetrievalError"
    ELSE IF not_eligible(force, result, u) THEN "ValueError"
    ELSE "enqueued"

\* (the task is dispatched before the eligibility check)
api_delay_first(queue, k, u, force, outcome) ==
    IF outcome = "DoesNotExist" THEN queue ELSE delay(queue, k, u, "api", force)

\* api.py 72-76: the task is dispatched only when nothing was raised.
api_delay(queue, k, u, force, outcome) ==
    IF outcome = "enqueued" THEN delay(queue, k, u, "api", force) ELSE queue

ApiGenerateCertificateForUser(k, u, force) ==
    /\ calls_made < MaxCalls
    /\ calls_made' = calls_made + 1
    /\ \E result \in RetrievalResults :
         LET outcome == api_outcome(k, u, force, result)
         IN /\ last_call' = [config |-> k, user_id |-> u, force |-> force,
                             outcome |-> outcome,
                             eligible |-> u \in Range(result)]
            /\ tasks' = api_delay(tasks, k, u, force, outcome)
    /\ UNCHANGED <<ledger, uuid4, rendered, render_failures,
                   accounts,
                   pure_vars>>

\* ------------------------------------------- administrative invalidation
\* An operator marks an AVAILABLE certificate INVALIDATED.
Invalidate(id) ==
    /\ \E r \in ledger :
         /\ r.uuid = id
         /\ r.status = AVAILABLE
         /\ ledger' = save(ledger, [r EXCEPT !.status = INVALIDATED])
    /\ UNCHANGED <<uuid4, tasks, last_call, calls_made, rendered, render_failures,
                   accounts,
                   pure_vars>>

\* ------------------------------------------------------------------- Next
\* The scheduled pipeline: generate_certificates_task, the per-learner tasks
\* it dispatches, and the operator's invalidations.
Next ==
    \/ \E c \in ConfigIds : GenerateCertificatesTask(c)
    \/ \E t \in 1..Len(tasks) : Lookup(t)
    \/ \E t \in 1..Len(tasks) : SaveGenerating(t)
    \/ \E t \in 1..Len(tasks) : Create(t)
    \/ \E t \in 1..Len(tasks) : Generated(t)
    \/ \E t \in 1..Len(tasks) : GenerationFailed(t)
    \/ \E id \in 1..uuid4 : Invalidate(id)

Spec == Init /\ [][Next]_vars

\* Manual generation: api.generate_certificate_for_user for any (course,
\* certificate type) pair, one of which has no configuration, and the tasks
\* it dispatches.
NextApi ==
    \/ \E k \in 1..(NumConfigs + 1), u \in Users, force \in BOOLEAN :
         ApiGenerateCertificateForUser(k, u, force)
    \/ \E t \in 1..Len(tasks) : Lookup(t)
    \/ \E t \in 1..Len(tasks) : SaveGenerating(t)
    \/ \E t \in 1..Len(tasks) : Create(t)
    \/ \E t \in 1..Len(tasks) : Generated(t)
    \/ \E t \in 1..Len(tasks) : GenerationFailed(t)
    \/ \E id \in 1..uuid4 : Invalidate(id)

\* Manual generation starts from a ledger that holds no certificate or one
\* earlier certificate of user 1 for configuration 1, in any status.
earlier_certificate(status) ==
    [uuid |-> 1, user_id |-> 1, user_full_name |-> FormerName,
     course_id |-> course_id(1),
     certificate_type |-> certificate_type(1), status |-> status,
     download_url |-> IF status \in {AVAILABLE, INVALIDATED} THEN url_of(1)
                      ELSE NoUrl,
     generation_task_id |-> 0]

InitApi ==
    /\ ledger \in {{}} \cup {{earlier_certificate(s)} : s \in Status}
    /\ uuid4 = Cardinality(ledger)
    /\ tasks = <<>>
    /\ last_call = NoCall
    /\ calls_made = 0
    /\ rendered = [u \in Users |-> [c \in ConfigIds |-> 0]]
    /\ render_failures = 0
    /\ accounts = [u \in Users |-> Reachable]
    /\ filter_call = NoFilterCall
    /\ save_call = NoSaveCall
    /\ run_call = NoRunCall
    /\ clean_call = NoCleanCall
    /\ configurations = NoConfigurations
    /\ periodic_tasks = NoPeriodicTasks
    /\ runs = NoRuns
    /\ pdf_call = NoPdfCall
    /\ options_call = NoOptionsCall
    /\ completions_call = NoCompletionsCall
    /\ batch_call = NoBatchCall
    /\ grades_call = NoGradesCall

SpecApi == InitApi /\ [][NextApi]_vars

\* ------------------------------------------- the pipeline, run for ever
\* The run of a scheduled configuration keeps recurring, the user whose
\* certificate is followed stays eligible (retrieval hands back that user),
\* the worker
\* drops a task that has returned or raised and goes on with the queue, and
\* generation_func raises MaxFailures times at most.
\* The configurations whose periodic task is enabled: the first one.
Scheduled == {1}

StillEligible == {<<1>>}

GenerateCertificatesTaskAgain(c) == GenerateCertificatesTaskOn(c, StillEligible)

GenerationFailedWhileFailing(t) ==
    /\ render_failures < MaxFailures
    /\ GenerationFailed(t)

Finished == {"done", "raised", "integrity_error", "multiple"}

\* The worker is through with a task: nothing runs it again.
TaskFinished(t) ==
    /\ tasks[t].pc \in Finished
    /\ tasks' = SubSeq(tasks, 1, t - 1) \o SubSeq(tasks, t + 1, Len(tasks))
    /\ UNCHANGED <<ledger, uuid4, last_call, calls_made, rendered,
                   render_failures, accounts,
                   pure_vars>>

\* A step of a generate_certificate_for_user_task the worker holds.
TaskStep ==
    \/ \E t \in 1..Len(tasks) : Lookup(t)
    \/ \E t \in 1..Len(tasks) : SaveGenerating(t)
    \/ \E t \in 1..Len(tasks) : Create(t)
    \/ \E t \in 1..Len(tasks) : Generated(t)
    \/ \E t \in 1..Len(tasks) : GenerationFailedWhileFailing(t)
    \/ \E t \in 1..Len(tasks) : TaskFinished(t)

NextLive ==
    \/ \E c \in Scheduled : GenerateCertificatesTaskAgain(c)
    \/ \E t \in 1..Len(tasks) : Lookup(t)
    \/ \E t \in 1..Len(tasks) : SaveGenerating(t)
    \/ \E t \in 1..Len(tasks) : Create(t)
    \/ \E t \in 1..Len(tasks) : Generated(t)
    \/ \E t \in 1..Len(tasks) : GenerationFailedWhileFailing(t)
    \/ \E t \in 1..Len(tasks) : TaskFinished(t)
    \/ \E id \in 1..uuid4 : Invalidate(id)

\* Celery beat starts every configuration's run again and again, and the
\* worker executes what is queued.
SpecLive ==
    /\ Init
    /\ [][NextLive]_vars
    /\ WF_vars(TaskStep)
    /\ \A c \in Scheduled : WF_vars(GenerateCertificatesTaskAgain(c))

\* ------------------------------------------------ the notification
\* The run of a scheduled configuration for the followed user and the tasks
\* it dispatches, whatever the accounts are.
Accounts == [is_active : BOOLEAN, has_usable_password : BOOLEAN]

InitNotify ==
    /\ ledger = {}
    /\ uuid4 = 0
    /\ tasks = <<>>
    /\ last_call = NoCall
    /\ calls_made = 0
    /\ rendered = [u \in Users |-> [c \in ConfigIds |-> 0]]
    /\ render_failures = 0
    /\ accounts \in [Users -> Accounts]
    /\ filter_call = NoFilterCall
    /\ save_call = NoSaveCall
    /\ run_call = NoRunCall
    /\ clean_call = NoCleanCall
    /\ configurations = NoConfigurations
    /\ periodic_tasks = NoPeriodicTasks
    /\ runs = NoRuns
    /\ pdf_call = NoPdfCall
    /\ grades_call = NoGradesCall
    /\ batch_call = NoBatchCall
    /\ completions_call = NoCompletionsCall
    /\ options_call = NoOptionsCall

NextNotify ==
    \/ \E c \in Scheduled : GenerateCertificatesTaskAgain(c)
    \/ \E t \in 1..Len(tasks) : Lookup(t)
    \/ \E t \in 1..Len(tasks) : SaveGenerating(t)
    \/ \E t \in 1..Len(tasks) : Create(t)
    \/ \E t \in 1..Len(tasks) : Generated(t)
    \/ \E t \in 1..Len(tasks) : GenerationFailed(t)
    \/ \E id \in 1..uuid4 : Invalidate(id)

SpecNotify == InitNotify /\ [][NextNotify]_vars

\* ------------------------- filter_out_user_ids_with_certificates, alone
\* The certificate tables the function is applied to: at most MaxRows rows,
\* one per triple at most, of any user, of the (course, certificate type)
\* of a configuration or of the one pair without configuration, in any
\* status.
certificate_row(id, u, k, status) ==
    [uuid |-> id, user_id |-> u, user_full_name |-> user_full_name(u),
     course_id |-> course_id(k),
     certificate_type |-> certificate_type(k), status |-> status,
     download_url |-> IF status \in {AVAILABLE, INVALIDATED} THEN url_of(id)
                      ELSE NoUrl,
     generation_task_id |-> 0]

Triples == Users \X (1..(NumConfigs + 1))
triple_id(tr) == (tr[1] - 1) * (NumConfigs + 1) + tr[2]

Ledgers(rows) ==
    UNION {{{certificate_row(triple_id(tr), tr[1], tr[2], st[tr]) : tr \in T} :
              st \in [T -> Status]} :
           T \in {X \in SUBSET Triples : Cardinality(X) <= rows}}

InitFilter ==
    /\ ledger \in Ledgers(MaxRows)
    /\ uuid4 = Cardinality(Triples)
    /\ tasks = <<>>
    /\ last_call = NoCall
    /\ calls_made = 0
    /\ rendered = [u \in Users |-> [c \in ConfigIds |-> 0]]
    /\ render_failures = 0
    /\ accounts = [u \in Users |-> Reachable]
    /\ filter_call = NoFilterCall
    /\ save_call = NoSaveCall
    /\ run_call = NoRunCall
    /\ clean_call = NoCleanCall
    /\ configurations = NoConfigurations
    /\ periodic_tasks = NoPeriodicTasks
    /\ runs = NoRuns
    /\ pdf_call = NoPdfCall
    /\ options_call = NoOptionsCall
    /\ completions_call = NoCompletionsCall
    /\ batch_call = NoBatchCall
    /\ grades_call = NoGradesCall

\* One application of the function to the table drawn in InitFilter.
FilterOutUserIdsWithCertificates(c, user_ids) ==
    /\ filter_call = NoFilterCall
    /\ filter_call' = [config_id |-> c, user_ids |-> user_ids,
                       result |-> filter_out_user_ids_with_certificates(
                                      ledger, c, user_ids)]
    /\ UNCHANGED <<ledger, uuid4, tasks, last_call, calls_made, rendered,
                   render_failures, accounts,
                   grades_call,
                   batch_call,
                   completions_call,
                   options_call,
                   pdf_call,
                   clean_call,
                   run_call,
                   save_call,
                   beat_vars>>

NextFilter ==
    \E c \in ConfigIds, user_ids \in SeqsUpTo(Users, MaxListLen) :
        FilterOutUserIdsWithCertificates(c, user_ids)

SpecFilter == InitFilter /\ [][NextFilter]_vars

\* ----------------------------------- _are_grades_passing_criteria, alone
\* Grades are percentages; a weight is kept in hundredths (0.2 is 20), so
\* the weighted total is in hundredths of a point and is compared with a
\* hundred times the required total: the comparison of the code, in exact
\* arithmetic.
Categories == {"homework", "lab", "exam"}
Grades == {30, 90, 95}
RequiredValues == {40, 80, 90}
GradingPolicy == [homework |-> 20, lab |-> 10, exam |-> 70]

\* dict.get(category, 0)
required_get(required_grades, category) ==
    IF category \in DOMAIN required_grades THEN required_grades[category]
    ELSE 0

\* The for loop over user_grades.items(), from its i-th item on.
RECURSIVE grades_loop(_, _, _, _, _)
grades_loop(user_grades, i, total_score, required_grades, category_weights) ==
    IF i > Len(user_grades)
    THEN IF total_score >= 100 * required_get(required_grades, "total")
         THEN "True" ELSE "False"
    ELSE LET category == user_grades[i][1]
             score == user_grades[i][2]
         IN  IF score < required_get(required_grades, category) THEN "False"
             ELSE IF category \notin DOMAIN category_weights
                  THEN "ValueError"
                  ELSE grades_loop(user_grades, i + 1,
                           total_score + score * category_weights[category],
                           required_grades, category_weights)

\* (the check of the attempted categories left out)
are_grades_passing_unattempted(user_grades, required_grades, category_weights) ==
    grades_loop(user_grades, 1, 0, required_grades, category_weights)

\* _are_grades_passing_criteria; user_grades is the dict in its iteration
\* order, a sequence of <<category, grade>> items.
are_grades_passing_criteria(user_grades, required_grades, category_weights) ==
    IF ~ \A category \in DOMAIN required_grades \ {"total"} :
             \E i \in 1..Len(user_grades) : user_grades[i][1] = category
    THEN "False"
    ELSE grades_loop(user_grades, 1, 0, required_grades, category_weights)

\* The dicts the function is applied to.
UserGrades ==
    {g \in SeqsUpTo(Categories \X Grades, MaxGrades) :
        \A i, j \in 1..Len(g) : g[i][1] = g[j][1] => i = j}
RequiredGrades ==
    UNION {[D -> RequiredValues] : D \in SUBSET {"homework", "exam", "total"}}
CategoryWeights ==
    {[category \in D |-> GradingPolicy[category]] : D \in SUBSET Categories}

InitGrades ==
    /\ ledger = {}
    /\ uuid4 = 0
    /\ tasks = <<>>
    /\ last_call = NoCall
    /\ calls_made = 0
    /\ rendered = [u \in Users |-> [c \in ConfigIds |-> 0]]
    /\ render_failures = 0
    /\ accounts = [u \in Users |-> Reachable]
    /\ filter_call = NoFilterCall
    /\ save_call = NoSaveCall
    /\ run_call = NoRunCall
    /\ clean_call = NoCleanCall
    /\ configurations = NoConfigurations
    /\ periodic_tasks = NoPeriodicTasks
    /\ runs = NoRuns
    /\ pdf_call = NoPdfCall
    /\ options_call = NoOptionsCall
    /\ completions_call = NoCompletionsCall
    /\ batch_call = NoBatchCall
    /\ \E user_grades \in UserGrades, required_grades \in RequiredGrades,
          category_weights \in CategoryWeights :
          grades_call = [user_grades |-> user_grades,
                         required_grades |-> required_grades,
                         category_weights |-> category_weights,
                         result |-> "none"]

AreGradesPassingCriteria ==
    /\ grades_call.result = "none"
    /\ grades_call' = [grades_call EXCEPT !.result =
                          are_grades_passing_criteria(grades_call.user_grades,
                              grades_call.required_grades,
                              grades_call.category_weights)]
    /\ UNCHANGED <<ledger, uuid4, tasks, last_call, calls_made, rendered,
                   render_failures, accounts,
                   filter_call,
                   batch_call,
                   completions_call,
                   options_call,
                   pdf_call,
                   clean_call,
                   run_call,
                   save_call,
                   beat_vars>>

NextGrades == AreGradesPassingCriteria

SpecGrades == InitGrades /\ [][NextGrades]_vars

\* --------------------------------------------- retrieve_subsection_grades
\* key.lower() of the keys the options are written with.
lower(key) ==
    CASE key = "Homework" -> "homework"
      [] key = "Exam" -> "exam"
      [] key = "Total" -> "total"
      [] key = "Lab" -> "lab"
      [] OTHER -> key

\* Every number of a call is kept as a hundred times its value: the fraction
\* 0.4 is 40, the weight 0.2 is 20, the percentage 90.0 is 9000.
\* (the fractions are compared as they are written)
required_grades_unscaled(options) ==
    [category \in {lower(key) : key \in DOMAIN options} |->
        LET key == CHOOSE k \in DOMAIN options : lower(k) = category
        IN  options[key]]

\* processors.py 149-150: {key.lower(): value * 100 for key, value in ...}
required_grades_of(options) ==
    [category \in {lower(key) : key \in DOMAIN options} |->
        LET key == CHOOSE k \in DOMAIN options : lower(k) = category
        IN  options[key] * 100]

\* processors.py 48: {category['type'].lower(): category['weight'] for
\* category in grading_policy}; the policy is kept as type -> weight.
get_category_weights(grading_policy) ==
    [category \in {lower(type) : type \in DOMAIN grading_policy} |->
        LET type == CHOOSE t \in DOMAIN grading_policy : lower(t) = category
        IN  grading_policy[type]]

NoEligibleUsers == [raised |-> TRUE, eligible_users |-> <<>>]

\* processors.py 157-162: the loop over grades.items(), from its i-th item
\* on; a ValueError of the evaluation leaves the function.
RECURSIVE eligible_loop(_, _, _, _, _)
eligible_loop(grades, i, eligible_users, required_grades, weights) ==
    IF i > Len(grades)
    THEN [raised |-> FALSE, eligible_users |-> eligible_users]
    ELSE LET passing == are_grades_passing_criteria(grades[i][2],
                            required_grades, weights)
         IN  IF passing = "ValueError" THEN NoEligibleUsers
             ELSE eligible_loop(grades, i + 1,
                      IF passing = "True"
                      THEN Append(eligible_users, grades[i][1])
                      ELSE eligible_users,
                      required_grades, weights)

\* retrieve_subsection_grades, given what the enrolment, grades and grading
\* policy lookups return: grades is the dict of user id to grades, in order.
retrieve_subsection_grades(options, grades, grading_policy) ==
    eligible_loop(grades, 1, <<>>, required_grades_of(options),
                  get_category_weights(grading_policy))

\* The grades of a batch: every enrolled user's, by category.
BatchGrades ==
    {g \in SeqsUpTo({"homework", "lab"} \X {3000, 9000}, 2) :
        \A i, j \in 1..Len(g) : g[i][1] = g[j][1] => i = j}
Batches ==
    UNION {{[u \in 1..n |-> <<u, g[u]>>] : g \in [1..n -> BatchGrades]} :
           n \in 0..NumUsers}
RequiredOptions ==
    UNION {[D -> {40, 90}] : D \in SUBSET {"Homework", "Total"}}
\* get_course_grading_policy(course_id): the types as the course writes them.
PolicyTypes == {"Homework", "Lab", "exam"}
GradingPolicies ==
    {[type \in D |-> GradingPolicy[lower(type)]] : D \in SUBSET PolicyTypes}

InitBatch ==
    /\ ledger = {}
    /\ uuid4 = 0
    /\ tasks = <<>>
    /\ last_call = NoCall
    /\ calls_made = 0
    /\ rendered = [u \in Users |-> [c \in ConfigIds |-> 0]]
    /\ render_failures = 0
    /\ accounts = [u \in Users |-> Reachable]
    /\ filter_call = NoFilterCall
    /\ save_call = NoSaveCall
    /\ run_call = NoRunCall
    /\ clean_call = NoCleanCall
    /\ configurations = NoConfigurations
    /\ periodic_tasks = NoPeriodicTasks
    /\ runs = NoRuns
    /\ pdf_call = NoPdfCall
    /\ options_call = NoOptionsCall
    /\ completions_call = NoCompletionsCall
    /\ grades_call = NoGradesCall
    /\ \E options \in RequiredOptions, grades \in Batches,
          grading_policy \in GradingPolicies :
          batch_call = [options |-> options, grades |-> grades,
                        grading_policy |-> grading_policy, weights |-> <<>>,
                        called |-> FALSE, result |-> NoEligibleUsers]

RetrieveSubsectionGrades ==
    /\ ~batch_call.called
    /\ batch_call' = [batch_call EXCEPT
                         !.called = TRUE,
                         !.weights = get_category_weights(
                                         batch_call.grading_policy),
                         !.result = retrieve_subsection_grades(
                                        batch_call.options, batch_call.grades,
                                        batch_call.grading_policy)]
    /\ UNCHANGED <<ledger, uuid4, tasks, last_call, calls_made, rendered,
                   render_failures, accounts,
                   filter_call, grades_call,
                   completions_call,
                   options_call,
                   pdf_call,
                   clean_call,
                   run_call,
                   save_call,
                   beat_vars>>

NextBatch == RetrieveSubsectionGrades

SpecBatch == InitBatch /\ [][NextBatch]_vars

\* -------------------------------------------- retrieve_course_completions
\* Completion percentages are kept in hundredths (0.9 is 90).
Percents == {70, 80, 90}
DefaultRequiredCompletion == 90

\* User.username of the user with this id.
username(u) == <<"user", u>>

\* The list of S in ascending order.
Sorted(S) == CHOOSE s \in Orderings(S) : \A i, j \in 1..Len(s) : i < j => s[i] < s[j]

\* What the Completion Aggregator exposes for a course: one to MaxPages
\* pages, a user on one page at most, every page but the last with a next
\* page. A page is response.data: results and pagination.next.
page_of(placed, p, n) ==
    LET on_page == Sorted({u \in Users : placed[u][1] = p})
    IN  [results |-> [i \in 1..Len(on_page) |->
                         [username |-> username(on_page[i]),
                          percent |-> placed[on_page[i]][2]]],
         next |-> p < n]

Sources ==
    UNION {{[p \in 1..n |-> page_of(placed, p, n)] :
              placed \in [Users -> {<<0, 0>>} \cup ((1..n) \X Percents)]} :
           n \in 1..MaxPages}

CompletionOptions == {<<>>} \cup {[required_completion |-> 80]}

\* A source that never reports a last page: every page has a next page, and
\* the pages after those listed are like the last one listed.
EndlessSources ==
    {[p \in 1..Len(source) |-> [source[p] EXCEPT !.next = TRUE]] :
        source \in Sources}

\* response.data of the page the request asks for.
response_of(source, page) ==
    source[IF page <= Len(source) THEN page ELSE Len(source)]

\* The call has just been entered, for one of sources.
InitCompletionsOn(sources) ==
    /\ ledger = {}
    /\ uuid4 = 0
    /\ tasks = <<>>
    /\ last_call = NoCall
    /\ calls_made = 0
    /\ rendered = [u \in Users |-> [c \in ConfigIds |-> 0]]
    /\ render_failures = 0
    /\ accounts = [u \in Users |-> Reachable]
    /\ filter_call = NoFilterCall
    /\ save_call = NoSaveCall
    /\ run_call = NoRunCall
    /\ clean_call = NoCleanCall
    /\ configurations = NoConfigurations
    /\ periodic_tasks = NoPeriodicTasks
    /\ runs = NoRuns
    /\ pdf_call = NoPdfCall
    /\ options_call = NoOptionsCall
    /\ grades_call = NoGradesCall
    /\ batch_call = NoBatchCall
    /\ \E options \in CompletionOptions, source \in sources :
          completions_call =
              [options |-> options, source |-> source,
               query_params |-> [page_size |-> 1000, page |-> 1],
               fetched |-> <<>>, completions |-> <<>>,
               pc |-> "get", result |-> <<>>]

InitCompletions == InitCompletionsOn(Sources)

\* options.get('required_completion', 0.9)
required_completion(options) ==
    IF "required_completion" \in DOMAIN options
    THEN options["required_completion"]
    ELSE DefaultRequiredCompletion

\* (a completion has to exceed the threshold)
above_threshold(percent, required) == percent > required

\* res['completion']['percent'] >= required_completion
reaches_threshold(percent, required) == percent >= required

\* (the next marker is not consulted: one page is fetched)
no_next_page(response) == TRUE

\* (an empty page ends the loop too)
last_or_empty_page(response) == ~response.next \/ response.results = <<>>

\* not response.data['pagination']['next']
last_page(response) == ~response.next

\* One turn of the while loop: the page of query_params is fetched, the
\* usernames at or above the threshold are added, and either the loop is
\* left or the page number goes up by one. The loop itself has no bound;
\* the model follows it for MaxPages + 1 pages.
GetPage ==
    /\ completions_call.pc = "get"
    /\ completions_call.query_params.page <= MaxPages + 1
    /\ LET call == completions_call
           response == response_of(call.source, call.query_params.page)
           passed == SelectSeq(response.results,
                         LAMBDA res : reaches_threshold(res.percent,
                                          required_completion(call.options)))
       IN  completions_call' =
               [call EXCEPT
                   !.fetched = Append(@, call.query_params),
                   !.completions = @ \o [i \in 1..Len(passed) |->
                                            passed[i].username],
                   !.pc = IF last_page(response) THEN "filter" ELSE "get",
                   !.query_params.page =
                       IF last_page(response) THEN @ ELSE @ + 1]
    /\ UNCHANGED <<ledger, uuid4, tasks, last_call, calls_made, rendered,
                   render_failures, accounts,
                   filter_call, grades_call, batch_call,
                   options_call,
                   pdf_call,
                   clean_call,
                   run_call,
                   save_call,
                   beat_vars>>

\* The ids of the users whose username is in completions, as a list in the
\* order the database decides.
ReturnCompletions ==
    /\ completions_call.pc = "filter"
    /\ \E ids \in Orderings({u \in Users :
                    username(u) \in Range(completions_call.completions)}) :
          completions_call' = [completions_call EXCEPT !.pc = "returned",
                                                       !.result = ids]
    /\ UNCHANGED <<ledger, uuid4, tasks, last_call, calls_made, rendered,
                   render_failures, accounts,
                   filter_call, grades_call, batch_call,
                   options_call,
                   pdf_call,
                   clean_call,
                   run_call,
                   save_call,
                   beat_vars>>

NextCompletions ==
    \/ GetPage
    \/ ReturnCompletions

SpecCompletions == InitCompletions /\ [][NextCompletions]_vars

\* The call on any source, ending or endless, run on: the loop is sequential
\* code that goes on to its next statement.
SpecPaging ==
    /\ InitCompletionsOn(Sources \cup EndlessSources)
    /\ [][NextCompletions]_vars
    /\ WF_vars(NextCompletions)

\* ------------------------------------------------------- custom_options
\* The options of a certificate type and of a configuration: JSON objects.
OptionKeys == {"template", "required_completion"}
OptionValues == {"A", "B"}
CustomOptions == UNION {[D -> OptionValues] : D \in SUBSET OptionKeys}

\* (the options of the certificate type win)
type_options_first(type_options, config_options) ==
    [key \in DOMAIN type_options \cup DOMAIN config_options |->
        IF key \in DOMAIN type_options THEN type_options[key]
        ELSE config_options[key]]

\* {**self.certificate_type.custom_options, **self.custom_options}
custom_options(type_options, config_options) ==
    [key \in DOMAIN type_options \cup DOMAIN config_options |->
        IF key \in DOMAIN config_options THEN config_options[key]
        ELSE type_options[key]]

InitOptions ==
    /\ ledger = {}
    /\ uuid4 = 0
    /\ tasks = <<>>
    /\ last_call = NoCall
    /\ calls_made = 0
    /\ rendered = [u \in Users |-> [c \in ConfigIds |-> 0]]
    /\ render_failures = 0
    /\ accounts = [u \in Users |-> Reachable]
    /\ filter_call = NoFilterCall
    /\ save_call = NoSaveCall
    /\ run_call = NoRunCall
    /\ clean_call = NoCleanCall
    /\ configurations = NoConfigurations
    /\ periodic_tasks = NoPeriodicTasks
    /\ runs = NoRuns
    /\ pdf_call = NoPdfCall
    /\ grades_call = NoGradesCall
    /\ batch_call = NoBatchCall
    /\ completions_call = NoCompletionsCall
    /\ \E type_options \in CustomOptions, config_options \in CustomOptions :
          options_call = [type_options |-> type_options,
                          config_options |-> config_options,
                          called |-> {}, retrieval |-> <<>>,
                          generation |-> <<>>]

\* get_eligible_user_ids: func(self.course_id, custom_options)
RetrievalFuncCalled ==
    /\ "retrieval" \notin options_call.called
    /\ options_call' = [options_call EXCEPT
                           !.called = @ \cup {"retrieval"}, !.retrieval =
                           custom_options(options_call.type_options,
                                          options_call.config_options)]
    /\ UNCHANGED <<ledger, uuid4, tasks, last_call, calls_made, rendered,
                   render_failures, accounts,
                   filter_call, grades_call, batch_call,
                   completions_call,
                   pdf_call,
                   clean_call,
                   run_call,
                   save_call,
                   beat_vars>>

\* generate_certificate_for_user: generation_func(..., custom_options)
GenerationFuncCalled ==
    /\ "generation" \notin options_call.called
    /\ options_call' = [options_call EXCEPT
                           !.called = @ \cup {"generation"}, !.generation =
                           custom_options(options_call.type_options,
                                          options_call.config_options)]
    /\ UNCHANGED <<ledger, uuid4, tasks, last_call, calls_made, rendered,
                   render_failures, accounts,
                   filter_call, grades_call, batch_call,
                   completions_call,
                   pdf_call,
                   clean_call,
                   run_call,
                   save_call,
                   beat_vars>>

NextOptions ==
    \/ RetrievalFuncCalled
    \/ GenerationFuncCalled

SpecOptions == InitOptions /\ [][NextOptions]_vars

\* ------------------------------------------------ generate_pdf_certificate
\* A name is a string, kept as the sequence of its characters.
Chars == {"A", ";"}
Newline == "\n"
Names == SeqsUpTo(Chars, MaxNameLen)

\* What get_course_name or the LearningPath lookup gives: a display name,
\* or an exception.
LookupFailed == <<"lookup failed">>
DisplayNames == (Names \ {<<>>}) \cup {LookupFailed}

\* The slugs the options can name, and the ExternalCertificateAsset table.
TemplateSlug == "template_slug"
TemplateTwoLinesSlug == "template_two_lines_slug"
FontSlug == "font_slug"
Slugs == {TemplateSlug, TemplateTwoLinesSlug, FontSlug}

\* A key of the options that may be missing.
Optional(key, values) == {<<>>} \cup {key :> v : v \in values}

GeneratorOptions ==
    {resource_name @@ template @@ template_two_lines @@ font :
        resource_name \in Optional("resource_name", Names),
        template \in Optional("template", {TemplateSlug}),
        template_two_lines \in Optional("template_two_lines",
                                        {TemplateTwoLinesSlug}),
        font \in Optional("font", {FontSlug})}

ResourceTypes == {"course", "learning_path", "program"}

\* settings.CERTIFICATES_CUSTOM_DOMAIN (None when not set) and the class of
\* default_storage.
NoCustomDomain == "None"
CustomDomains == {NoCustomDomain, "https://certificates.example.com"}
Storages == {"FileSystemStorage", "S3Storage"}

\* options.get('resource_name') is truthy: there and not the empty string.
resource_name_given(options) ==
    "resource_name" \in DOMAIN options /\ options["resource_name"] # <<>>

\* options.get(key) is truthy, for a key that holds a slug.
slug_given(options, key) == key \in DOMAIN options

\* ';' in resource_name
has_semicolon(name) == \E i \in 1..Len(name) : name[i] = ";"

\* resource_name.replace(';', '\n')
replace_semicolons(name) ==
    [i \in 1..Len(name) |-> IF name[i] = ";" THEN Newline ELSE name[i]]

\* What a call has done when it returns or raises.
NotWritten == <<"nothing written">>
NoArtifactUrl == [base |-> <<>>, path |-> <<>>]
pdf_result(raised, lookups, written, stored, url) ==
    [raised |-> raised, lookups |-> lookups, written |-> written,
     stored |-> stored, url |-> url]

\* (every type but course is looked up as a learning path)
not_course(resource_type) == resource_type # "course"

\* generators.py 207: elif resource_type == 'learning_path'
is_learning_path(resource_type) == resource_type = "learning_path"

\* generators.py 203-217: the name written on the certificate, or the
\* exception that leaves the function. For a course the option, when it is
\* not empty, stands for the looked-up name; for a learning path the name is
\* the looked-up display_name, "" when the lookup raises.
resource_name_of(resource_type, options, looked_up) ==
    IF resource_type = "course"
    THEN IF resource_name_given(options)
         THEN [raised |-> "none", name |-> options["resource_name"]]
         ELSE IF looked_up = LookupFailed
              THEN [raised |-> "LookupError", name |-> <<>>]
              ELSE [raised |-> "none", name |-> looked_up]
    ELSE IF is_learning_path(resource_type)
         THEN [raised |-> "none",
               name |-> IF looked_up = LookupFailed THEN <<>> ELSE looked_up]
         ELSE [raised |-> "ValueError", name |-> <<>>]

\* (a missing asset is replaced by a default one)
get_asset_or_default(assets, slug) == "asset"

\* ExternalCertificateAsset.get_asset_by_slug: the file, or AssetNotFoundError.
get_asset_by_slug(assets, slug) ==
    IF slug \in assets THEN "asset" ELSE "AssetNotFoundError"

\* (the two-line template whenever the option is set)
two_lines_whenever_set(name, options) ==
    slug_given(options, "template_two_lines")

\* generators.py 221: ';' in resource_name and options.get('template_two_lines')
two_lines(name, options) ==
    has_semicolon(name) /\ slug_given(options, "template_two_lines")

\* The path of the artifact: external_certificates/<uuid>.pdf
output_path(id) == <<"external_certificates/", id, ".pdf">>

\* get_default_storage_url(): the configured root URL and media prefix.
get_default_storage_url == <<"LMS_ROOT_URL", "MEDIA_URL">>

\* (the custom domain is used for local storage only)
save_certificate_local_domain(storage, custom_domain, id) ==
    IF storage = "FileSystemStorage"
    THEN IF custom_domain # NoCustomDomain
         THEN [base |-> <<custom_domain>>, path |-> <<"/", id, ".pdf">>]
         ELSE [base |-> get_default_storage_url, path |-> output_path(id)]
    ELSE [base |-> <<"default_storage.url">>, path |-> output_path(id)]

\* generators.py 160-168: the URL _save_certificate returns once the file is
\* saved.
save_certificate(storage, custom_domain, id) ==
    LET url == IF storage = "FileSystemStorage"
               THEN [base |-> get_default_storage_url, path |-> output_path(id)]
               ELSE [base |-> <<"default_storage.url">>,
                     path |-> output_path(id)]
    IN  IF custom_domain # NoCustomDomain
        THEN [base |-> <<custom_domain>>, path |-> <<"/", id, ".pdf">>]
        ELSE url

\* generators.py 227-245, after the template was found: the font is
\* registered, the text written and the file saved.
write_and_save(call, lookups, name) ==
    LET font_lookups == IF slug_given(call.options, "font")
                        THEN Append(lookups, call.options["font"])
                        ELSE lookups
    IN  IF /\ slug_given(call.options, "font")
           /\ get_asset_by_slug(call.assets, call.options["font"])
                 = "AssetNotFoundError"
        THEN pdf_result("AssetNotFoundError", font_lookups, NotWritten, FALSE,
                        NoArtifactUrl)
        ELSE pdf_result("none", font_lookups, name, TRUE,
                 save_certificate(call.storage, call.custom_domain, call.uuid))

\* generate_pdf_certificate(resource_id, resource_type, user,
\* certificate_uuid, options), given what the lookups, the asset table and
\* the settings are.
generate_pdf_certificate(call) ==
    LET named == resource_name_of(call.resource_type, call.options,
                                  call.looked_up)
    IN  IF named.raised # "none"
        THEN pdf_result(named.raised, <<>>, NotWritten, FALSE, NoArtifactUrl)
        ELSE IF two_lines(named.name, call.options)
        THEN LET slug == call.options["template_two_lines"]
             IN  IF get_asset_by_slug(call.assets, slug) = "AssetNotFoundError"
                 THEN pdf_result("AssetNotFoundError", <<slug>>, NotWritten,
                                 FALSE, NoArtifactUrl)
                 ELSE write_and_save(call, <<slug>>,
                                     replace_semicolons(named.name))
        ELSE IF "template" \notin DOMAIN call.options
        THEN pdf_result("KeyError", <<>>, NotWritten, FALSE, NoArtifactUrl)
        ELSE LET slug == call.options["template"]
             IN  IF get_asset_by_slug(call.assets, slug) = "AssetNotFoundError"
                 THEN pdf_result("AssetNotFoundError", <<slug>>, NotWritten,
                                 FALSE, NoArtifactUrl)
                 ELSE write_and_save(call, <<slug>>, named.name)

\* What reaches the caller of generate_certificate_for_user: nothing raised.
NoGenerationError ==
    [raised |-> "none", message |-> <<>>, cause |-> "none"]

\* (the error is raised without its cause)
generation_error_from_none(certificate, u, c, exc) ==
    [raised |-> "CertificateGenerationError",
     message |-> <<"Failed to generate the certificate.uuid=",
                   ToString(certificate.uuid), " for user_id=", ToString(u),
                   " with self.id=", ToString(c), ".">>,
     cause |-> "none"]

\* models.py 225-226: the message names the certificate, the user and the
\* configuration, and the error is raised from the exception that was caught.
generation_error(certificate, u, c, exc) ==
    [raised |-> "CertificateGenerationError",
     message |-> <<"Failed to generate the certificate.uuid=",
                   ToString(certificate.uuid), " for user_id=", ToString(u),
                   " with self.id=", ToString(c), ".">>,
     cause |-> exc]

\* An attempt of generate_certificate_for_user whose generation_func is
\* generate_pdf_certificate: the certificate of user 2 for configuration 1
\* has been created GENERATING under identifier 3, and the function is about
\* to be called.
generating_certificate == certificate_row(3, 2, 1, GENERATING)

InitPdf ==
    /\ ledger = {generating_certificate}
    /\ uuid4 = generating_certificate.uuid
    /\ tasks = <<[config_id |-> 1, user_id |-> generating_certificate.user_id,
                  pc |-> "generating",
                  certificate |-> generating_certificate, origin |-> "run",
                  force |-> FALSE, sent |-> <<>>]>>
    /\ last_call = NoCall
    /\ calls_made = 0
    /\ rendered = [u \in Users |-> [c \in ConfigIds |-> 0]]
    /\ render_failures = 0
    /\ accounts = [u \in Users |-> Reachable]
    /\ filter_call = NoFilterCall
    /\ save_call = NoSaveCall
    /\ run_call = NoRunCall
    /\ clean_call = NoCleanCall
    /\ configurations = NoConfigurations
    /\ periodic_tasks = NoPeriodicTasks
    /\ runs = NoRuns
    /\ grades_call = NoGradesCall
    /\ batch_call = NoBatchCall
    /\ completions_call = NoCompletionsCall
    /\ options_call = NoOptionsCall
    /\ \E resource_type \in ResourceTypes, options \in GeneratorOptions,
          looked_up \in DisplayNames, assets \in SUBSET Slugs,
          storage \in Storages, custom_domain \in CustomDomains :
          pdf_call = [resource_type |-> resource_type, options |-> options,
                      looked_up |-> looked_up, assets |-> assets,
                      storage |-> storage, custom_domain |-> custom_domain,
                      uuid |-> generating_certificate.uuid,
                      called |-> FALSE,
                      result |-> pdf_result("none", <<>>, NotWritten, FALSE,
                                            NoArtifactUrl),
                      error |-> NoGenerationError]

\* models.py 213-231 for task t: generation_func is called; its URL is saved
\* with status AVAILABLE and the message is sent, or, when it raises, ERROR
\* is saved and CertificateGenerationError raised.
GeneratePdfCertificate(t) ==
    /\ tasks[t].pc = "generating"
    /\ ~pdf_call.called
    /\ LET result == generate_pdf_certificate(pdf_call)
           certificate == [complete_generation(tasks[t].certificate)
                              EXCEPT !.download_url = result.url]
       IN  /\ pdf_call' = [pdf_call EXCEPT
                 !.called = TRUE, !.result = result,
                 !.error = IF result.raised = "none" THEN NoGenerationError
                           ELSE generation_error(tasks[t].certificate,
                                                 tasks[t].user_id,
                                                 tasks[t].config_id,
                                                 result.raised)]
           /\ IF result.raised = "none"
              THEN /\ ledger' = save(ledger, certificate)
                   /\ tasks' = [tasks EXCEPT
                         ![t].pc = "done",
                         ![t].certificate = worked_on(certificate),
                         ![t].sent = IF is_active_with_usable_password(
                                            accounts[tasks[t].user_id])
                                     THEN send_email(@, certificate)
                                     ELSE @]
                   /\ rendered' = [rendered EXCEPT
                         ![tasks[t].user_id][tasks[t].config_id] = @ + 1]
                   /\ UNCHANGED render_failures
              ELSE /\ ledger' = fail_generation(ledger, tasks[t].certificate)
                   /\ tasks' = [tasks EXCEPT ![t].pc = "raised",
                                             ![t].certificate = worked_on(@)]
                   /\ render_failures' = render_failures + 1
                   /\ UNCHANGED rendered
    /\ UNCHANGED <<uuid4, last_call, calls_made, accounts, filter_call,
                   grades_call, batch_call, completions_call, options_call,
                   clean_call,
                   run_call,
                   save_call,
                   beat_vars>>

NextPdf == \E t \in 1..Len(tasks) : GeneratePdfCertificate(t)

SpecPdf == InitPdf /\ [][NextPdf]_vars

\* ------------------------------------- configurations and periodic tasks
\* json.dumps of a list of ids, as the text PeriodicTask.args holds; and
\* json.loads of such a text, as the beat reads the arguments back.
RECURSIVE json_items(_)
json_items(list) ==
    IF list = <<>> THEN <<>>
    ELSE IF Len(list) = 1 THEN <<ToString(Head(list))>>
    ELSE <<ToString(Head(list)), ", ">> \o json_items(Tail(list))

json_dumps(list) == <<"[">> \o json_items(list) \o <<"]">>

json_number(text) == CHOOSE n \in 0..(NumConfigs + 1) : ToString(n) = text

RECURSIVE json_loads_items(_)
json_loads_items(text) ==
    IF text = <<>> THEN <<>>
    ELSE IF Head(text) \in {"[", ", ", "]"} THEN json_loads_items(Tail(text))
    ELSE <<json_number(Head(text))>> \o json_loads_items(Tail(text))

json_loads(text) == json_loads_items(text)

\* models.py 102-105: the dotted path of the task a periodic task runs, the
\* generation task of one configuration.
task_path == "openedx_certificates.tasks.generate_certificates_task"

\* models.py 112: name=f'{self.certificate_type} in {self.course_id}'
periodic_task_name(c) == <<certificate_type(c), " in ", course_id(c)>>

\* models.py 109-114: PeriodicTask.objects.create(enabled=False, ...); args
\* has the default of the field, the empty list.
periodic_task_create(table, c) ==
    Append(table, [enabled |-> FALSE, task |-> task_path,
                   args |-> json_dumps(<<>>), name |-> periodic_task_name(c)])

\* (a periodic task is created on every save)
state_adding_always(table, c) == TRUE

\* models.py 107: self._state.adding, true of an instance that is not yet a
\* row of the table.
state_adding(table, c) == c \notin DOMAIN table

\* ExternalCertificateCourseConfiguration.save (models.py 100-122) of the
\* configuration with id c (the id the table assigns when it is new) holding
\* custom_options: the tables as the call leaves them. modified
\* (TimeStampedModel) is later than created once a row is saved again.
configuration_save(table, periodic, c, options) ==
    LET created == IF state_adding(table, c)
                   THEN periodic_task_create(periodic, c)
                   ELSE periodic
        periodic_task == IF state_adding(table, c) THEN Len(created)
                         ELSE table[c].periodic_task
        row == [course_id |-> course_id(c),
                certificate_type |-> certificate_type(c),
                periodic_task |-> periodic_task,
                custom_options |-> options,
                modified |-> ~state_adding(table, c)]
        saved == IF state_adding(table, c) THEN Append(table, row)
                 ELSE [table EXCEPT ![c] = row]
    IN  [configurations |-> saved,
         periodic_tasks |-> [created EXCEPT
                                ![periodic_task].task = task_path,
                                ![periodic_task].args = json_dumps(<<c>>)]]

\* The options an administrator gives a configuration.
SavedOptions == {[required_completion |-> 80]}

\* An administrator creates the configuration of the next (course_id,
\* certificate_type) pair.
CreateConfiguration(options) ==
    /\ Len(configurations) < NumConfigs
    /\ LET saved == configuration_save(configurations, periodic_tasks,
                                       Len(configurations) + 1, options)
       IN  /\ configurations' = saved.configurations
           /\ periodic_tasks' = saved.periodic_tasks
    /\ UNCHANGED <<ledger, uuid4, tasks, last_call, calls_made, rendered,
                   render_failures, accounts, filter_call, grades_call,
                   batch_call, completions_call, options_call, pdf_call, clean_call, run_call, save_call, runs>>

\* An administrator saves an existing configuration again.
SaveConfiguration(c, options) ==
    /\ c \in DOMAIN configurations
    /\ LET saved == configuration_save(configurations, periodic_tasks, c,
                                       options)
       IN  /\ configurations' = saved.configurations
           /\ periodic_tasks' = saved.periodic_tasks
    /\ UNCHANGED <<ledger, uuid4, tasks, last_call, calls_made, rendered,
                   render_failures, accounts, filter_call, grades_call,
                   batch_call, completions_call, options_call, pdf_call, clean_call, run_call, save_call, runs>>

\* An administrator enables or disables a periodic task.
SetEnabled(p, enabled) ==
    /\ p \in DOMAIN periodic_tasks
    /\ periodic_tasks' = [periodic_tasks EXCEPT ![p].enabled = enabled]
    /\ UNCHANGED <<ledger, uuid4, tasks, last_call, calls_made, rendered,
                   render_failures, accounts, filter_call, grades_call,
                   batch_call, completions_call, options_call, pdf_call, clean_call,
                   run_call, save_call, configurations, runs>>

\* (every configuration counts as enabled)
all_configurations(table, periodic) == DOMAIN table

\* models.py 125-132: objects.filter(periodic_task__enabled=True)
get_enabled_configurations(table, periodic) ==
    {c \in DOMAIN table : periodic[table[c].periodic_task].enabled}

\* generate_certificates_task.delay(config_id) for each id of a list.
RECURSIVE delay_runs(_, _)
delay_runs(queue, config_ids) ==
    IF config_ids = <<>> THEN queue
    ELSE delay_runs(Append(queue, [config_id |-> Head(config_ids),
                                   pc |-> "queued"]),
                    Tail(config_ids))

\* tasks.py 51-61: one generate_certificates_task is dispatched for each
\* enabled configuration, in the order the query hands the ids back.
generate_all_certificates_task(queue, table, periodic) ==
    {delay_runs(queue, resource_config_ids) :
        resource_config_ids \in
            Orderings(get_enabled_configurations(table, periodic))}

GenerateAllCertificatesTask ==
    /\ \E queue \in generate_all_certificates_task(runs, configurations,
                                                   periodic_tasks) :
         /\ Len(queue) <= MaxRuns
         /\ runs' = queue
    /\ UNCHANGED <<ledger, uuid4, tasks, last_call, calls_made, rendered,
                   render_failures, accounts, filter_call, grades_call,
                   batch_call, completions_call, options_call, pdf_call, clean_call,
                   run_call, save_call, configurations, periodic_tasks>>

\* What retrieval hands a dispatched run here: an error, or no eligible user.
RunResults == {RetrievalError, <<>>}

\* The worker executes a dispatched generate_certificates_task: it returns,
\* or the retrieval error leaves it.
RunGenerateCertificatesTask(i) ==
    /\ i \in DOMAIN runs
    /\ runs[i].pc = "queued"
    /\ \E result \in RunResults :
         /\ tasks' \in generate_certificates_task(ledger, tasks,
                                                  runs[i].config_id, result)
         /\ runs' = [runs EXCEPT ![i].pc = IF result = RetrievalError
                                           THEN "raised" ELSE "returned"]
    /\ UNCHANGED <<ledger, uuid4, last_call, calls_made, rendered,
                   render_failures, accounts, filter_call, grades_call,
                   batch_call, completions_call, options_call, pdf_call, clean_call,
                   run_call, save_call, configurations, periodic_tasks>>

NextBeat ==
    \/ \E options \in SavedOptions : CreateConfiguration(options)
    \/ \E c \in ConfigIds, options \in SavedOptions :
         SaveConfiguration(c, options)
    \/ \E p \in ConfigIds, enabled \in BOOLEAN : SetEnabled(p, enabled)
    \/ GenerateAllCertificatesTask
    \/ \E i \in 1..MaxRuns : RunGenerateCertificatesTask(i)

SpecBeat == Init /\ [][NextBeat]_vars

\* ------------------------------------------ ExternalCertificateType.clean
\* A dotted path is a text over: the separator, the name of the one module
\* that can be imported, the name of a function of that module, and the name
\* of an attribute of it that is not callable (a logger, a constant).
PathChars == {".", "m", "f", "v"}
FuncPaths == SeqsUpTo(PathChars, MaxPathLen)

\* The position of the last '.' of a text, 0 when it has none.
RECURSIVE rfind_dot(_, _)
rfind_dot(text, i) ==
    IF i = 0 THEN 0
    ELSE IF text[i] = "." THEN i ELSE rfind_dot(text, i - 1)

\* func_path.rsplit('.', 1): the parts around the last '.', or the whole
\* text as the only part.
rsplit(func_path) ==
    LET dot == rfind_dot(func_path, Len(func_path))
    IN  IF dot = 0 THEN <<func_path>>
        ELSE <<SubSeq(func_path, 1, dot - 1),
               SubSeq(func_path, dot + 1, Len(func_path))>>

\* importlib.import_module(module_path): ValueError for the empty name,
\* TypeError for a relative name (no package is given), the module, or
\* ImportError when there is no such module.
import_module(module_path) ==
    IF module_path = <<>> THEN "ValueError"
    ELSE IF Head(module_path) = "." THEN "TypeError"
    ELSE IF module_path = <<"m">> THEN "module"
    ELSE "ImportError"

\* getattr(module, func_name): the attribute, or AttributeError.
module_getattr(func_name) ==
    IF func_name = <<"f">> THEN "function"
    ELSE IF func_name = <<"v">> THEN "not callable"
    ELSE "AttributeError"

\* models.py 55-58: what the try block of one field raises, "none" when it
\* runs to its end.
resolve_func(func_path) ==
    LET parts == rsplit(func_path)
    IN  IF Len(parts) # 2 THEN "ValueError"
        ELSE LET module == import_module(parts[1])
             IN  IF module # "module" THEN module
                 ELSE IF module_getattr(parts[2]) = "AttributeError"
                      THEN "AttributeError"
                      ELSE "none"

NoValidationError == [raised |-> "none", field |-> "none", message |-> "none"]

\* models.py 59-64: the except clauses of one field.
clean_field(func_field, func_path) ==
    LET raised == resolve_func(func_path)
    IN  IF raised = "none" THEN NoValidationError
        ELSE IF raised = "ValueError"
        THEN [raised |-> "ValidationError", field |-> func_field,
              message |-> "Function path must be in format 'module.function_name'."]
        ELSE IF raised \in {"ImportError", "AttributeError"}
        THEN [raised |-> "ValidationError", field |-> func_field,
              message |-> "The function could not be found."]
        ELSE [raised |-> raised, field |-> "none", message |-> "none"]

\* ExternalCertificateType.clean (models.py 51-64): retrieval_func, then
\* generation_func; the first exception leaves the method.
clean(retrieval_func, generation_func) ==
    LET first == clean_field("retrieval_func", retrieval_func)
    IN  IF first.raised # "none" THEN first
        ELSE clean_field("generation_func", generation_func)

InitClean ==
    /\ ledger = {}
    /\ uuid4 = 0
    /\ tasks = <<>>
    /\ last_call = NoCall
    /\ calls_made = 0
    /\ rendered = [u \in Users |-> [c \in ConfigIds |-> 0]]
    /\ render_failures = 0
    /\ accounts = [u \in Users |-> Reachable]
    /\ filter_call = NoFilterCall
    /\ save_call = NoSaveCall
    /\ run_call = NoRunCall
    /\ grades_call = NoGradesCall
    /\ batch_call = NoBatchCall
    /\ completions_call = NoCompletionsCall
    /\ options_call = NoOptionsCall
    /\ pdf_call = NoPdfCall
    /\ configurations = NoConfigurations
    /\ periodic_tasks = NoPeriodicTasks
    /\ runs = NoRuns
    /\ \E retrieval_func \in FuncPaths, generation_func \in FuncPaths :
          clean_call = [called |-> FALSE, retrieval_func |-> retrieval_func,
                        generation_func |-> generation_func,
                        result |-> NoValidationError]

Clean ==
    /\ ~clean_call.called
    /\ clean_call' = [clean_call EXCEPT
                         !.called = TRUE,
                         !.result = clean(clean_call.retrieval_func,
                                          clean_call.generation_func)]
    /\ UNCHANGED <<ledger, uuid4, tasks, last_call, calls_made, rendered,
                   render_failures, accounts, filter_call, grades_call,
                   batch_call, completions_call, options_call, pdf_call,
                   run_call,
                   save_call,
                   beat_vars>>

NextClean == Clean

SpecClean == InitClean /\ [][NextClean]_vars

\* -------------------------------- one run of generation for a configuration
\* (a retrieval error is caught and the run goes on with no eligible user)
retrieval_error_swallowed(result) == FALSE

\* tasks.py 42, models.py 136: the exception of get_eligible_user_ids is not
\* caught, it leaves the run.
retrieval_raised(result) == result = RetrievalError

\* generate_certificate_for_user(user_id) called directly (models.py
\* 175-231, celery_task_id 0): the row is found and saved GENERATING or
\* created, then saved AVAILABLE and the message sent, or saved ERROR when
\* generation_func raises. n is the number of identifiers handed out.
generate_certificate_for_user(rows, n, u, c, fails, sent) ==
    LET got == objects_get(rows, u, c)
        made == objects_create(rows, u, c, 0, n + 1)
        certificate == IF got.pc = "found"
                       THEN begin_existing(got.certificate, 0)
                       ELSE made.certificate
        begun == IF got.pc = "found" THEN save(rows, certificate)
                 ELSE made.rows
        handed == IF got.pc = "found" THEN n ELSE n + 1
    IN  IF got.pc = "multiple"
        THEN [rows |-> rows, uuid4 |-> n, sent |-> sent,
              raised |-> "MultipleObjectsReturned"]
        ELSE IF fails
        THEN [rows |-> fail_generation(begun, certificate), uuid4 |-> handed,
              sent |-> sent, raised |-> "CertificateGenerationError"]
        ELSE [rows |-> save(begun, complete_generation(certificate)),
              uuid4 |-> handed,
              sent |-> send_email(sent, complete_generation(certificate)),
              raised |-> "none"]

\* models.py 140-141: the loop over filtered_user_ids; an exception of
\* generate_certificate_for_user leaves the loop and the method.
RECURSIVE generate_loop(_, _, _, _, _, _, _)
generate_loop(rows, n, c, user_ids, failing, attempted, sent) ==
    IF user_ids = <<>>
    THEN [rows |-> rows, uuid4 |-> n, attempted |-> attempted, sent |-> sent,
          raised |-> "none"]
    ELSE LET user_id == Head(user_ids)
             made == generate_certificate_for_user(rows, n, user_id, c,
                                                   user_id \in failing, sent)
         IN  IF made.raised # "none"
             THEN [rows |-> made.rows, uuid4 |-> made.uuid4,
                   attempted |-> Append(attempted, user_id),
                   sent |-> made.sent, raised |-> made.raised]
             ELSE generate_loop(made.rows, made.uuid4, c, Tail(user_ids),
                                failing, Append(attempted, user_id),
                                made.sent)

\* ExternalCertificateCourseConfiguration.generate_certificates (models.py
\* 134-141), for the lists list(filtered_user_ids_set) can be; failing are
\* the users for whom generation_func raises.
generate_certificates(rows, n, c, result, failing) ==
    IF result = RetrievalError
    THEN {[rows |-> rows, uuid4 |-> n, attempted |-> <<>>, sent |-> <<>>,
           raised |-> "RetrievalError"]}
    ELSE {generate_loop(rows, n, c, filtered_user_ids, failing, <<>>, <<>>) :
            filtered_user_ids \in Orderings(
                filter_out_user_ids_with_certificates(
                    rows, c, get_eligible_user_ids(result)))}

\* The tables a run starts from: any certificates of the users for the
\* configuration of the run, and one of another configuration.
RunConfig == 1
other_certificate == certificate_row(triple_id(<<1, 2>>), 1, 2, AVAILABLE)
RunLedgers ==
    UNION {{{certificate_row(triple_id(<<u, RunConfig>>), u, RunConfig, st[u]) :
                u \in U} \cup {other_certificate} :
              st \in [U -> Status]} :
           U \in {X \in SUBSET Users : Cardinality(X) <= MaxRows}}

InitRun ==
    /\ ledger \in RunLedgers
    /\ uuid4 = Cardinality(Triples)
    /\ tasks = <<>>
    /\ last_call = NoCall
    /\ calls_made = 0
    /\ rendered = [u \in Users |-> [c \in ConfigIds |-> 0]]
    /\ render_failures = 0
    /\ accounts = [u \in Users |-> Reachable]
    /\ filter_call = NoFilterCall
    /\ save_call = NoSaveCall
    /\ grades_call = NoGradesCall
    /\ batch_call = NoBatchCall
    /\ completions_call = NoCompletionsCall
    /\ options_call = NoOptionsCall
    /\ pdf_call = NoPdfCall
    /\ clean_call = NoCleanCall
    /\ configurations = NoConfigurations
    /\ periodic_tasks = NoPeriodicTasks
    /\ runs = NoRuns
    /\ run_call = NoRunCall

\* The run as the task generate_certificates_task (tasks.py 30-48).
RunAsTask(c, result) ==
    /\ ~run_call.called
    /\ tasks' \in generate_certificates_task(ledger, tasks, c, result)
    /\ run_call' = [called |-> TRUE, kind |-> "task", config_id |-> c,
                    result |-> result, failing |-> {},
                    raised |-> IF retrieval_raised(result)
                               THEN "RetrievalError" ELSE "none",
                    attempted |-> <<>>, sent |-> <<>>]
    /\ UNCHANGED <<ledger, uuid4, last_call, calls_made, rendered,
                   render_failures, accounts, filter_call, grades_call,
                   batch_call, completions_call, options_call, pdf_call,
                   clean_call,
                   save_call,
                   beat_vars>>

\* The run as the method generate_certificates (models.py 134-141), which
\* generates in the calling thread.
RunInline(c, result, failing) ==
    /\ ~run_call.called
    /\ \E made \in generate_certificates(ledger, uuid4, c, result, failing) :
         /\ ledger' = made.rows
         /\ uuid4' = made.uuid4
         /\ rendered' = [u \in Users |-> [k \in ConfigIds |->
               IF /\ k = c
                  /\ u \in Range(made.attempted)
                  /\ ~(made.raised # "none"
                       /\ u = made.attempted[Len(made.attempted)])
               THEN rendered[u][k] + 1 ELSE rendered[u][k]]]
         /\ render_failures' = IF made.raised = "CertificateGenerationError"
                               THEN render_failures + 1 ELSE render_failures
         /\ run_call' = [called |-> TRUE, kind |-> "inline", config_id |-> c,
                         result |-> result, failing |-> failing,
                         raised |-> IF retrieval_raised(result)
                                    THEN "RetrievalError" ELSE made.raised,
                         attempted |-> made.attempted, sent |-> made.sent]
    /\ UNCHANGED <<tasks, last_call, calls_made, accounts, filter_call,
                   grades_call, batch_call, completions_call, options_call,
                   pdf_call, clean_call,
                   save_call,
                   beat_vars>>

NextRun ==
    \/ \E result \in RetrievalResults : RunAsTask(RunConfig, result)
    \/ \E result \in RetrievalResults, failing \in SUBSET Users :
         RunInline(RunConfig, result, failing)

SpecRun == InitRun /\ [][NextRun]_vars

\* ------------------------------------ attempts for one and the same triple
\* MaxTasks tasks for user 1 and configuration 1 are queued at once (two runs
\* dispatched one each before either had a row, or repeated manual requests),
\* on a table that has no certificate of the triple or has one, of an
\* earlier attempt, in any status.
RaceUser == 1
RaceConfig == 1
existing_certificate(status) ==
    [certificate_row(2, RaceUser, RaceConfig, status)
        EXCEPT !.user_full_name = FormerName]

InitRace ==
    /\ ledger \in {{}} \cup {{existing_certificate(s)} : s \in Status}
    /\ uuid4 = IF ledger = {} THEN 0 ELSE existing_certificate(ERROR).uuid
    /\ tasks = delay_all(<<>>, RaceConfig, [t \in 1..MaxTasks |-> RaceUser])
    /\ last_call = NoCall
    /\ calls_made = 0
    /\ rendered = [u \in Users |-> [c \in ConfigIds |-> 0]]
    /\ render_failures = 0
    /\ accounts = [u \in Users |-> Reachable]
    /\ filter_call = NoFilterCall
    /\ save_call = NoSaveCall
    /\ run_call = NoRunCall
    /\ clean_call = NoCleanCall
    /\ configurations = NoConfigurations
    /\ periodic_tasks = NoPeriodicTasks
    /\ runs = NoRuns
    /\ pdf_call = NoPdfCall
    /\ grades_call = NoGradesCall
    /\ batch_call = NoBatchCall
    /\ completions_call = NoCompletionsCall
    /\ options_call = NoOptionsCall

NextRace ==
    \/ \E t \in 1..Len(tasks) : Lookup(t)
    \/ \E t \in 1..Len(tasks) : SaveGenerating(t)
    \/ \E t \in 1..Len(tasks) : Create(t)
    \/ \E t \in 1..Len(tasks) : Generated(t)
    \/ \E t \in 1..Len(tasks) : GenerationFailed(t)

SpecRace == InitRace /\ [][NextRace]_vars

\* ---------------------- filter_out_user_ids_with_certificates, called twice
\* (a list comprehension over user_ids in place of the set difference)
filtered_without_set(rows, c, user_ids) ==
    {SelectSeq(user_ids,
               LAMBDA u : u \in filter_out_user_ids_with_certificates(
                                   rows, c, user_ids))}

\* models.py 158-159: list(filtered_user_ids_set), the lists the call can
\* return: the ids of the set once each, in the order the set hands them out.
filtered_user_ids(rows, c, user_ids) ==
    Orderings(filter_out_user_ids_with_certificates(rows, c, user_ids))

NotCalledAgain == [called |-> FALSE, returned |-> <<>>]

\* The first call for the configuration of the run, on a table of InitRun.
FilterOnce(user_ids) ==
    /\ filter_call = NoFilterCall
    /\ \E returned \in filtered_user_ids(ledger, RunConfig, user_ids) :
          filter_call' = [config_id |-> RunConfig, user_ids |-> user_ids,
                          result |-> filter_out_user_ids_with_certificates(
                                         ledger, RunConfig, user_ids),
                          returned |-> returned, again |-> NotCalledAgain]
    /\ UNCHANGED <<ledger, uuid4, tasks, last_call, calls_made, rendered,
                   render_failures, accounts, grades_call, batch_call,
                   completions_call, options_call, pdf_call, clean_call,
                   run_call,
                   save_call,
                   beat_vars>>

\* The second call, with the candidates of the first.
FilterAgain ==
    /\ filter_call # NoFilterCall
    /\ ~filter_call.again.called
    /\ \E returned \in filtered_user_ids(ledger, filter_call.config_id,
                                          filter_call.user_ids) :
          filter_call' = [filter_call EXCEPT
                             !.again = [called |-> TRUE, returned |-> returned]]
    /\ UNCHANGED <<ledger, uuid4, tasks, last_call, calls_made, rendered,
                   render_failures, accounts, grades_call, batch_call,
                   completions_call, options_call, pdf_call, clean_call,
                   run_call,
                   save_call,
                   beat_vars>>

NextRefilter ==
    \/ \E user_ids \in SeqsUpTo(Users, MaxListLen) : FilterOnce(user_ids)
    \/ FilterAgain

SpecRefilter == InitRun /\ [][NextRefilter]_vars

\* ------------------------------------------ _save_certificate, the storage
\* The default storage is a set of files, each a name and a content.
\* Storage.exists(name)
storage_exists(files, name) == \E f \in files : f.name = name

\* Storage.delete(name)
storage_delete(files, name) == {f \in files : f.name # name}

\* Storage.get_available_name(name): the name itself when it is free, else
\* the name with a suffix before the extension.
get_available_name(files, name) ==
    IF storage_exists(files, name)
    THEN SubSeq(name, 1, Len(name) - 1) \o <<"_suffix", name[Len(name)]>>
    ELSE name

\* Storage.save(name, content): the content is stored under a name that is
\* free.
storage_save(files, name, content) ==
    files \cup {[name |-> get_available_name(files, name), content |-> content]}

\* (the file is saved without deleting the one that is there)
store_without_delete(files, id, certificate_file) ==
    storage_save(files, output_path(id), certificate_file)

\* generators.py 154-158: the file of the path is deleted if it exists, and
\* the certificate is saved under the path.
store_certificate(files, id, certificate_file) ==
    storage_save(IF storage_exists(files, output_path(id))
                 THEN storage_delete(files, output_path(id))
                 ELSE files,
                 output_path(id), certificate_file)

\* The storage before the call: for each certificate, no file or the file of
\* an earlier render; the file of some other application; a file the
\* storage once saved under a suffixed name of certificate 1.
StoredIds == 1..(NumConfigs + 1)
other_file == [name |-> <<"other/", 1, ".pdf">>, content |-> "other"]
suffixed_file ==
    [name |-> <<"external_certificates/", 1, "_suffix", ".pdf">>,
     content |-> "earlier"]
StoredFiles ==
    {{[name |-> output_path(id), content |-> "earlier"] : id \in ids}
        \cup others : ids \in SUBSET StoredIds,
                      others \in SUBSET {other_file, suffixed_file}}

InitStore ==
    /\ ledger = {}
    /\ uuid4 = 0
    /\ tasks = <<>>
    /\ last_call = NoCall
    /\ calls_made = 0
    /\ rendered = [u \in Users |-> [c \in ConfigIds |-> 0]]
    /\ render_failures = 0
    /\ accounts = [u \in Users |-> Reachable]
    /\ filter_call = NoFilterCall
    /\ grades_call = NoGradesCall
    /\ batch_call = NoBatchCall
    /\ completions_call = NoCompletionsCall
    /\ options_call = NoOptionsCall
    /\ pdf_call = NoPdfCall
    /\ clean_call = NoCleanCall
    /\ run_call = NoRunCall
    /\ configurations = NoConfigurations
    /\ periodic_tasks = NoPeriodicTasks
    /\ runs = NoRuns
    /\ \E files \in StoredFiles, id \in StoredIds :
          save_call = [called |-> FALSE, before |-> files, files |-> files,
                       certificate_uuid |-> id, certificate_file |-> "rendered"]

SaveCertificate ==
    /\ ~save_call.called
    /\ save_call' = [save_call EXCEPT
                        !.called = TRUE,
                        !.files = store_certificate(save_call.files,
                                      save_call.certificate_uuid,
                                      save_call.certificate_file)]
    /\ UNCHANGED <<ledger, uuid4, tasks, last_call, calls_made, rendered,
                   render_failures, accounts, filter_call, grades_call,
                   batch_call, completions_call, options_call, pdf_call,
                   clean_call, run_call, beat_vars>>

NextStore == SaveCertificate

SpecStore == InitStore /\ [][NextStore]_vars

\* ------------------------------------------------------------- properties
same_triple(r1, r2) ==
    /\ r1.user_id = r2.user_id
    /\ r1.course_id = r2.course_id
    /\ r1.certificate_type = r2.certificate_type

rows_of(rows, id) == {r \in rows : r.uuid = id}

\* C1: in every reachable state the ledger holds at most one certificate per
\* (user_id, course_id, certificate_type), also when attempts for one triple
\* interleave between their lookup and their create or save.
C1_OneCertificatePerTriple ==
    \A r1, r2 \in ledger : same_triple(r1, r2) => r1 = r2

\* Two attempts both found no row; the second create was refused.
C1_Witness ==
    \E t \in 1..Len(tasks) :
        /\ tasks[t].pc = "integrity_error"
        /\ Cardinality(objects_filter(ledger, tasks[t].user_id,
                                      tasks[t].config_id)) = 1

\* C2: over any interleaving of scheduled runs and the tasks they dispatch,
\* generation_func completes successfully at most once per (user,
\* configuration).
C2_RenderedAtMostOnce ==
    \A u \in Users, c \in ConfigIds : rendered[u][c] <= 1

\* C5: a step of a generation attempt that was not forced never changes the
\* status of a certificate that is AVAILABLE or INVALIDATED.
C5_TerminalUnlessForced ==
    [][\A t \in 1..Len(tasks) :
          (tasks'[t] # tasks[t] /\ ~tasks[t].force) =>
             \A r \in ledger :
                r.status \in {AVAILABLE, INVALIDATED} =>
                   \E r2 \in ledger' : r2.uuid = r.uuid /\ r2.status = r.status]_vars

\* C6: when generation_func raises, the step that raises leaves the
\* certificate saved with status ERROR; the step that ends an attempt leaves
\* the certificate it worked on in a status other than GENERATING; and a
\* certificate is GENERATING only while an attempt is between its save of
\* GENERATING and its final save.
C6_ErrorPersistedNotLeftGenerating ==
    /\ [][\A t \in 1..Len(tasks) :
            /\ (tasks[t].pc = "generating" /\ tasks'[t].pc = "raised") =>
                  \E r \in ledger' : /\ r.uuid = tasks[t].certificate.uuid
                                     /\ r.status = ERROR
            /\ (tasks[t].pc = "generating" /\ tasks'[t].pc \in {"done", "raised"}) =>
                  \A r \in rows_of(ledger', tasks[t].certificate.uuid) :
                     r.status # GENERATING]_vars
    /\ [](\A r \in ledger :
            r.status = GENERATING =>
               \E t \in 1..Len(tasks) : /\ tasks[t].pc = "generating"
                                        /\ tasks[t].certificate.uuid = r.uuid)

\* An attempt has raised and its certificate is saved as ERROR.
C6_Witness ==
    \E t \in 1..Len(tasks) :
        /\ tasks[t].pc = "raised"
        /\ \E r \in ledger : r.uuid = tasks[t].certificate.uuid /\ r.status = ERROR

\* The task api.generate_certificate_for_user dispatches for a call.
api_task(call) ==
    [config_id |-> call.config, user_id |-> call.user_id, pc |-> "queued",
     certificate |-> NoCertificate, origin |-> "api", force |-> call.force,
     sent |-> <<>>]

C8_RejectionChangesNothing ==
    [][(calls_made' # calls_made /\ last_call'.outcome = "ValueError") =>
          (ledger' = ledger /\ tasks' = tasks)]_vars

\* A call has been rejected as not eligible while the ledger held a
\* certificate.
C8_Witness ==
    /\ last_call.outcome = "ValueError"
    /\ ledger # {}
    /\ tasks = <<>>

\* The certificates of user u for the (course, certificate type) of the
\* last filter call.
certificates_of(u) == objects_filter(ledger, u, filter_call.config_id)

\* C3: filter_out_user_ids_with_certificates never returns a user id that
\* has a certificate of this configuration's (course, certificate type) in
\* status AVAILABLE, INVALIDATED or GENERATING.
C3_SuppressedNeverReturned ==
    filter_call # NoFilterCall =>
        \A u \in filter_call.result :
            \A r \in certificates_of(u) :
                r.status \notin {AVAILABLE, INVALIDATED, GENERATING}

\* A candidate with a GENERATING certificate was removed, another candidate
\* was returned.
C3_Witness ==
    /\ filter_call # NoFilterCall
    /\ filter_call.result # {}
    /\ \E u \in Range(filter_call.user_ids) :
          /\ u \notin filter_call.result
          /\ \E r \in certificates_of(u) : r.status = GENERATING

\* C4: every candidate id that has no certificate of this (course,
\* certificate type), or has one in ERROR, is in the result, whatever
\* certificates the user has for another course or certificate type.
C4_UncredentialedReturned ==
    filter_call # NoFilterCall =>
        \A u \in Range(filter_call.user_ids) :
            (\A r \in certificates_of(u) : r.status = ERROR) =>
                u \in filter_call.result

\* A candidate with an ERROR certificate here and an AVAILABLE one for
\* another course or certificate type was returned.
C4_Witness ==
    /\ filter_call # NoFilterCall
    /\ \E u \in filter_call.result :
          /\ \E r \in certificates_of(u) : r.status = ERROR
          /\ \E r \in ledger : /\ r.user_id = u
                               /\ r \notin certificates_of(u)
                               /\ r.status = AVAILABLE

\* The weighted total of the grades, in hundredths of a point.
RECURSIVE weighted_total(_, _, _)
weighted_total(user_grades, category_weights, positions) ==
    IF positions = {} THEN 0
    ELSE LET i == CHOOSE x \in positions : TRUE
         IN  user_grades[i][2] * category_weights[user_grades[i][1]]
             + weighted_total(user_grades, category_weights, positions \ {i})

graded_categories(user_grades) ==
    {user_grades[i][1] : i \in 1..Len(user_grades)}

\* C10: when every graded category has a weight, the function returns True
\* exactly when (a) every required category other than "total" is graded,
\* (b) every grade is at least its required minimum, 0 without requirement,
\* and (c) the weighted total is at least the "total" requirement, 0 when
\* absent; and it returns False otherwise.
C10_PassingIffAllThree ==
    LET g == grades_call.user_grades
        required == grades_call.required_grades
        weights == grades_call.category_weights
    IN  (/\ grades_call.result # "none"
         /\ graded_categories(g) \subseteq DOMAIN weights) =>
            /\ grades_call.result \in {"True", "False"}
            /\ grades_call.result = "True" <=>
                  /\ DOMAIN required \ {"total"} \subseteq graded_categories(g)
                  /\ \A i \in 1..Len(g) :
                        g[i][2] >= required_get(required, g[i][1])
                  /\ weighted_total(g, weights, 1..Len(g))
                        >= 100 * required_get(required, "total")

\* A learner passes a category requirement and a total requirement.
C10_Witness ==
    /\ grades_call.result = "True"
    /\ DOMAIN grades_call.required_grades = {"exam", "total"}
    /\ Len(grades_call.user_grades) = MaxGrades

has_status(u, c, status) ==
    \E r \in objects_filter(ledger, u, c) : r.status = status

\* C9: a certificate left in ERROR eventually reaches AVAILABLE when the
\* user stays eligible, the run recurs, queued tasks are executed and the
\* rendering stops failing; and the task whose attempt failed does nothing
\* more: a later task does the retry.
C9_ErrorEventuallyAvailable ==
    /\ \A result \in StillEligible : \A u \in Range(result), c \in Scheduled :
          has_status(u, c, ERROR) ~> has_status(u, c, AVAILABLE)
    /\ [][\A t \in 1..Len(tasks) :
            tasks[t].pc = "raised" =>
                \/ /\ Len(tasks') >= t
                   /\ tasks'[t] = tasks[t]
                \/ /\ Len(tasks') = Len(tasks) - 1
                   /\ ledger' = ledger
                   /\ rendered' = rendered]_vars

\* A certificate is AVAILABLE after an attempt on it had failed.
C9_Witness ==
    \E u \in Users, c \in Scheduled :
        /\ has_status(u, c, AVAILABLE)
        /\ render_failures > 0
        /\ rendered[u][c] = 1
        /\ \A r \in ledger : r.user_id = u

\* C11: whenever the grades of a user of the batch hold a category that has
\* no weight, retrieve_subsection_grades raises and returns no list.
C11_UnknownCategoryFailsBatch ==
    (/\ batch_call.called
     /\ \E i \in 1..Len(batch_call.grades) :
           ~(graded_categories(batch_call.grades[i][2])
                \subseteq DOMAIN batch_call.weights))
        => batch_call.result.raised

\* C12: the pages are fetched in the order 1, 2, 3, ... with page size
\* 1000, a page is requested only when the page before it was fetched and
\* reported a next page, one page is requested per step, and the call
\* returns having fetched as many pages as the source exposes.
C12_PagesFetchedInOrder ==
    /\ [](LET call == completions_call
          IN  /\ \A i \in 1..Len(call.fetched) :
                    /\ call.fetched[i] = [page_size |-> 1000, page |-> i]
                    /\ i > 1 => call.source[i - 1].next
              /\ Len(call.fetched) <= Len(call.source)
              /\ call.pc \in {"filter", "returned"} =>
                    /\ Len(call.fetched) = Len(call.source)
                    /\ ~call.source[Len(call.fetched)].next)
    /\ [][/\ Len(completions_call'.fetched) <= Len(completions_call.fetched) + 1
          /\ SubSeq(completions_call'.fetched, 1, Len(completions_call.fetched))
                = completions_call.fetched]_vars

\* Two pages were fetched before the call returned.
C12_Witness ==
    /\ completions_call.pc = "returned"
    /\ Len(completions_call.fetched) = 2
    /\ completions_call.result # <<>>

\* The users of the source whose completion reaches the threshold.
completed_users(call) ==
    {u \in Users :
        \E p \in 1..Len(call.source) :
            \E i \in 1..Len(call.source[p].results) :
                /\ call.source[p].results[i].username = username(u)
                /\ call.source[p].results[i].percent
                      >= required_completion(call.options)}

\* C13: the call returns exactly the ids of the users whose completion on
\* some page is at least required_completion (0.9 without the option), each
\* id once; a single page or a page without results is no error.
C13_ResultIsUsersAtOrAboveThreshold ==
    completions_call.pc = "returned" =>
        /\ Range(completions_call.result) = completed_users(completions_call)
        /\ Len(completions_call.result)
              = Cardinality(completed_users(completions_call))

\* A single page, the default threshold, a user exactly on it and a user
\* below it.
C13_Witness ==
    /\ completions_call.pc = "returned"
    /\ completions_call.options = <<>>
    /\ Len(completions_call.source) = 1
    /\ \E i, j \in 1..Len(completions_call.source[1].results) :
          /\ completions_call.source[1].results[i].percent = 90
          /\ completions_call.source[1].results[j].percent = 80
    /\ Len(completions_call.result) = 1

\* passed holds every key of either object, with the configuration's value
\* for a key of the configuration and the type's value for any other key.
union_config_wins(passed, type_options, config_options) ==
    /\ DOMAIN passed = DOMAIN type_options \cup DOMAIN config_options
    /\ \A key \in DOMAIN config_options : passed[key] = config_options[key]
    /\ \A key \in DOMAIN type_options \ DOMAIN config_options :
          passed[key] = type_options[key]

\* C14: the options handed to the retrieval function and to the generation
\* function are the union of the type's options and the configuration's,
\* with the configuration's value for every key present in both.
C14_OptionsMergedConfigurationWins ==
    /\ "retrieval" \in options_call.called =>
          union_config_wins(options_call.retrieval,
              options_call.type_options, options_call.config_options)
    /\ "generation" \in options_call.called =>
          union_config_wins(options_call.generation,
              options_call.type_options, options_call.config_options)

\* Both functions were called with a key the two objects disagree on and a
\* key only the type has.
C14_Witness ==
    /\ options_call.called = {"retrieval", "generation"}
    /\ \E key \in DOMAIN options_call.type_options
                  \cap DOMAIN options_call.config_options :
          options_call.type_options[key] # options_call.config_options[key]
    /\ DOMAIN options_call.type_options \ DOMAIN options_call.config_options # {}

\* C15: an attempt has sent a message exactly when it succeeded and the
\* user's account is active with a usable password; it sends one message at
\* most, in the step that has saved the row AVAILABLE with the URL the
\* message carries; an attempt that ended in ERROR has sent none.
C15_NotifiedIffSucceededAndReachable ==
    /\ [](\A t \in 1..Len(tasks) :
            /\ tasks[t].sent # <<>> <=>
                  /\ tasks[t].pc = "done"
                  /\ accounts[tasks[t].user_id].is_active
                  /\ accounts[tasks[t].user_id].has_usable_password
            /\ Len(tasks[t].sent) <= 1
            /\ tasks[t].pc = "raised" => tasks[t].sent = <<>>)
    /\ [][\A t \in 1..Len(tasks) :
            tasks'[t].sent # tasks[t].sent =>
                \E r \in ledger' :
                    /\ r.uuid = tasks'[t].certificate.uuid
                    /\ r.user_id = tasks'[t].sent[1].user_id
                    /\ r.status = AVAILABLE
                    /\ r.download_url # NoUrl
                    /\ r.download_url = tasks'[t].sent[1].certificate_link]_vars

\* An attempt sent its message after an attempt had failed.
C15_Witness ==
    /\ \E t \in 1..Len(tasks) : tasks[t].sent # <<>>
    /\ render_failures > 0

\* The call came to the choice of the template: the resource type is
\* supported and the name was resolved.
name_resolved(call) ==
    resource_name_of(call.resource_type, call.options, call.looked_up).raised
        = "none"

resolved_name(call) ==
    resource_name_of(call.resource_type, call.options, call.looked_up).name

\* C16: the two-line template is looked up, and every semicolon of the name
\* written as a newline, exactly when the name holds a semicolon and
\* options.template_two_lines is set; otherwise options.template is looked
\* up and the name written as it is, and without options.template the call
\* raises.
C16_TwoLineTemplateIffSemicolonAndOption ==
    (pdf_call.called /\ name_resolved(pdf_call)) =>
        LET call == pdf_call
            name == resolved_name(call)
        IN  IF /\ \E i \in 1..Len(name) : name[i] = ";"
               /\ "template_two_lines" \in DOMAIN call.options
            THEN /\ call.result.lookups # <<>>
                 /\ call.result.lookups[1] = call.options["template_two_lines"]
                 /\ call.result.written # NotWritten =>
                       /\ Len(call.result.written) = Len(name)
                       /\ \A i \in 1..Len(name) :
                             call.result.written[i] =
                                 IF name[i] = ";" THEN Newline ELSE name[i]
            ELSE IF "template" \in DOMAIN call.options
            THEN /\ call.result.lookups # <<>>
                 /\ call.result.lookups[1] = call.options["template"]
                 /\ call.result.written # NotWritten =>
                       call.result.written = name
            ELSE /\ call.result.raised = "KeyError"
                 /\ call.result.lookups = <<>>
                 /\ ~call.result.stored

\* A name with a semicolon was written on the two-line template.
C16_Witness ==
    /\ pdf_call.called
    /\ pdf_call.result.lookups # <<>>
    /\ pdf_call.result.lookups[1] = TemplateTwoLinesSlug
    /\ pdf_call.result.written = <<"A", Newline>>

\* C17: for a course and for a learning path, a resource_name option that is
\* not empty is the name written on the certificate, whatever the lookup
\* gives; the looked-up name is written only without it.
C17_ResourceNameOptionOverrides ==
    (/\ pdf_call.called
     /\ pdf_call.resource_type \in {"course", "learning_path"}
     /\ pdf_call.result.written # NotWritten
     /\ resource_name_given(pdf_call.options)) =>
        \/ pdf_call.result.written = pdf_call.options["resource_name"]
        \/ pdf_call.result.written
              = replace_semicolons(pdf_call.options["resource_name"])

\* C18: for a resource type that is neither course nor learning_path the
\* call raises ValueError with no asset looked up and nothing stored, and
\* the certificate of the attempt is saved ERROR.
C18_UnsupportedTypeFailsFirst ==
    (/\ pdf_call.called
     /\ pdf_call.resource_type \notin {"course", "learning_path"}) =>
        /\ pdf_call.result.raised = "ValueError"
        /\ pdf_call.result.lookups = <<>>
        /\ ~pdf_call.result.stored
        /\ \A r \in ledger : r.uuid = pdf_call.uuid => r.status = ERROR
        /\ \A t \in 1..Len(tasks) : tasks[t].pc = "raised"

\* An unsupported type with every asset in place.
C18_Witness ==
    /\ pdf_call.called
    /\ pdf_call.resource_type = "program"
    /\ pdf_call.assets = Slugs
    /\ DOMAIN pdf_call.options = {"template", "font"}
    /\ \E r \in ledger : r.status = ERROR

\* C19: when a slug that is looked up is not an asset, the call raises
\* AssetNotFoundError, nothing is stored, the certificate is saved ERROR
\* and the attempt raises.
C19_MissingAssetIsAnError ==
    (/\ pdf_call.called
     /\ \E i \in 1..Len(pdf_call.result.lookups) :
           pdf_call.result.lookups[i] \notin pdf_call.assets) =>
        /\ pdf_call.result.raised = "AssetNotFoundError"
        /\ ~pdf_call.result.stored
        /\ pdf_call.result.url = NoArtifactUrl
        /\ \A r \in ledger : r.uuid = pdf_call.uuid => r.status = ERROR
        /\ \A t \in 1..Len(tasks) : tasks[t].pc = "raised"

\* The template is there and the font is not.
C19_Witness ==
    /\ pdf_call.called
    /\ pdf_call.result.lookups = <<TemplateSlug, FontSlug>>
    /\ TemplateSlug \in pdf_call.assets
    /\ FontSlug \notin pdf_call.assets
    /\ \E r \in ledger : r.status = ERROR

\* C20: the URL of a stored certificate is custom_domain/<uuid>.pdf when a
\* custom domain is configured, whatever the storage; without one it is the
\* root URL and media prefix followed by the path for FileSystemStorage, and
\* the storage's URL of the path for any other storage.
C20_UrlOfStoredCertificate ==
    (pdf_call.called /\ pdf_call.result.stored) =>
        LET url == pdf_call.result.url
            path == <<"external_certificates/", pdf_call.uuid, ".pdf">>
        IN  /\ pdf_call.custom_domain # NoCustomDomain =>
                  url = [base |-> <<pdf_call.custom_domain>>,
                         path |-> <<"/", pdf_call.uuid, ".pdf">>]
            /\ (/\ pdf_call.custom_domain = NoCustomDomain
                /\ pdf_call.storage = "FileSystemStorage") =>
                  url = [base |-> <<"LMS_ROOT_URL", "MEDIA_URL">>,
                         path |-> path]
            /\ (/\ pdf_call.custom_domain = NoCustomDomain
                /\ pdf_call.storage # "FileSystemStorage") =>
                  url = [base |-> <<"default_storage.url">>, path |-> path]
            /\ \A r \in ledger : r.uuid = pdf_call.uuid => r.download_url = url

\* A custom domain with a storage that is not the local file system.
C20_Witness ==
    /\ pdf_call.called
    /\ pdf_call.result.stored
    /\ pdf_call.custom_domain # NoCustomDomain
    /\ pdf_call.storage = "S3Storage"

\* The periodic tasks whose arguments name configuration c.
periodic_tasks_of(c) ==
    {p \in DOMAIN periodic_tasks : json_loads(periodic_tasks[p].args) = <<c>>}

dispatched_runs == SubSeq(runs', Len(runs) + 1, Len(runs'))

\* C22: a step that dispatches runs dispatches exactly one, queued, for each
\* configuration whose periodic task is enabled and none for any other,
\* and leaves the runs dispatched before as they are, whether they are
\* still queued, have returned or have raised.
C22_OneRunPerEnabledConfiguration ==
    [][Len(runs') # Len(runs) =>
          /\ SubSeq(runs', 1, Len(runs)) = runs
          /\ \A c \in DOMAIN configurations :
                Cardinality({i \in DOMAIN dispatched_runs :
                                dispatched_runs[i].config_id = c})
                   = IF periodic_tasks[configurations[c].periodic_task].enabled
                     THEN 1 ELSE 0
          /\ \A i \in DOMAIN dispatched_runs :
                /\ dispatched_runs[i].config_id \in DOMAIN configurations
                /\ dispatched_runs[i].pc = "queued"]_vars

\* With one configuration enabled and the other disabled, a run was
\* dispatched after the run dispatched before it had raised.
C22_Witness ==
    /\ Len(configurations) = 2
    /\ periodic_tasks[configurations[1].periodic_task].enabled
    /\ ~periodic_tasks[configurations[2].periodic_task].enabled
    /\ Len(runs) = 2
    /\ runs[1] = [config_id |-> 1, pc |-> "raised"]
    /\ runs[2] = [config_id |-> 1, pc |-> "queued"]

\* The one path that names a callable: the function of the module.
resolves_to_callable(func_path) == func_path = <<"m", ".", "f">>

run_made == ~run_call.called /\ run_call'.called

\* C24: a run whose retrieval raises ends with that error, dispatches no
\* per-learner task, attempts no generation and leaves every certificate as
\* it was.
C24_RetrievalErrorLeavesNothing ==
    [][(run_made /\ run_call'.result = RetrievalError) =>
          /\ run_call'.raised = "RetrievalError"
          /\ tasks' = tasks
          /\ run_call'.attempted = <<>>
          /\ ledger' = ledger]_vars

\* The retrieval of an inline run raised, over a table that holds a
\* certificate in ERROR for the configuration.
C24_Witness ==
    /\ run_call.called
    /\ run_call.kind = "inline"
    /\ run_call.result = RetrievalError
    /\ run_call.failing = {}
    /\ \E r \in ledger : /\ r.course_id = course_id(RunConfig)
                         /\ r.certificate_type = certificate_type(RunConfig)
                         /\ r.status = ERROR

\* The learners of the batch of the run being made: those of the eligible
\* list without a certificate of the configuration in a status other than
\* ERROR.
batch_of_run ==
    Range(run_call'.result) \
        {r.user_id : r \in {x \in ledger :
            /\ x.course_id = course_id(run_call'.config_id)
            /\ x.certificate_type = certificate_type(run_call'.config_id)
            /\ x.status # ERROR}}

\* The learners the run being made has dispatched a generation for, in
\* order: the tasks it queued, or the calls it made itself.
dispatched_by_run ==
    IF run_call'.kind = "task"
    THEN [i \in 1..(Len(tasks') - Len(tasks)) |-> tasks'[Len(tasks) + i].user_id]
    ELSE run_call'.attempted

\* C29: a run whose retrieval returns dispatches a generation for each
\* learner of its batch exactly once, also when the eligible list names the
\* learner several times, and for no other learner.
C29_BatchDispatchedExactlyOnce ==
    [][(run_made /\ run_call'.result # RetrievalError) =>
          /\ Range(dispatched_by_run) = batch_of_run
          /\ Len(dispatched_by_run) = Cardinality(batch_of_run)]_vars

\* C30: a run dispatched as tasks queues a task of its own for every
\* learner of the batch, and a run that generates by itself, when the
\* generation of a learner of the batch fails, still attempts the
\* generation of every learner of the batch.
C30_FailureDoesNotStopTheBatch ==
    [][(run_made /\ run_call'.result # RetrievalError) =>
          \A u \in batch_of_run :
             IF run_call'.kind = "task"
             THEN u \in Range(dispatched_by_run)
             ELSE (run_call'.failing \cap batch_of_run # {}) =>
                     u \in Range(run_call'.attempted)]_vars

\* The rows a step has written: those of the table that were not in it, or
\* not as they are now.
written_rows == ledger' \ ledger

\* C25: the steps of one attempt write the certificate's status in this
\* order and no other: the lookup writes nothing; the attempt begins by
\* writing GENERATING (or ends there when the create is refused); then it
\* writes once more and ends, AVAILABLE together with the URL the generation
\* function returned, or ERROR; no step of an attempt writes INVALIDATED,
\* and an ended attempt writes nothing.
C25_StatusWritesOfAnAttempt ==
    [][\A t \in 1..Len(tasks) :
          tasks'[t] # tasks[t] =>
             LET before == tasks[t].pc
                 after == tasks'[t].pc
             IN  /\ before \notin Finished
                 /\ \A r \in written_rows : r.status # INVALIDATED
                 /\ before = "queued" =>
                       /\ after \in {"found", "missing", "multiple"}
                       /\ written_rows = {}
                 /\ before \in {"found", "missing"} =>
                       \/ /\ after = "generating"
                          /\ tasks'[t].certificate \in ledger'
                          /\ tasks'[t].certificate.status = GENERATING
                          /\ written_rows \subseteq {tasks'[t].certificate}
                       \/ /\ before = "missing"
                          /\ after = "integrity_error"
                          /\ written_rows = {}
                 /\ before = "generating" =>
                       LET saved == [tasks[t].certificate EXCEPT
                                        !.status = IF after = "done"
                                                   THEN AVAILABLE ELSE ERROR,
                                        !.download_url =
                                            IF after = "done"
                                            THEN url_of(tasks[t].certificate.uuid)
                                            ELSE @]
                       IN  /\ after \in {"done", "raised"}
                           /\ saved \in ledger'
                           /\ written_rows \subseteq {saved}]_vars

\* One attempt has ended with its certificate AVAILABLE and its URL, and
\* another with its certificate in ERROR.
C25_Witness ==
    \E t1, t2 \in 1..Len(tasks) :
        /\ tasks[t1].pc = "done"
        /\ tasks[t2].pc = "raised"
        /\ \E r \in ledger : /\ r.uuid = tasks[t1].certificate.uuid
                             /\ r.status = AVAILABLE
                             /\ r.download_url = url_of(r.uuid)
        /\ \E r \in ledger : /\ r.uuid = tasks[t2].certificate.uuid
                             /\ r.status = ERROR

\* The identifiers in a table.
uuids(rows) == {r.uuid : r \in rows}

\* C26: an attempt that found a certificate of its triple, in whatever
\* status, begins by writing to that row: the table keeps its identifiers
\* and its other rows, and the row keeps its identifier and triple and gets
\* the learner's current name, GENERATING and the attempt's task id. An
\* attempt that found none, on a table that has none, begins by adding
\* exactly one row, GENERATING, under an identifier no row had.
C26_BeginGenerationUpserts ==
    [][\A t \in 1..Len(tasks) :
          (tasks'[t] # tasks[t] /\ tasks[t].pc \in {"found", "missing"}) =>
             LET u == tasks[t].user_id
                 c == tasks[t].config_id
                 begun == tasks'[t].certificate
             IN  IF tasks[t].pc = "found"
                 THEN /\ uuids(ledger') = uuids(ledger)
                      /\ Cardinality(ledger') = Cardinality(ledger)
                      /\ begun.uuid = tasks[t].certificate.uuid
                      /\ begun \in ledger'
                      /\ same_triple(begun, tasks[t].certificate)
                      /\ begun.user_full_name = user_full_name(u)
                      /\ begun.status = GENERATING
                      /\ begun.generation_task_id = t
                      /\ \A r \in ledger :
                            r.uuid # begun.uuid => r \in ledger'
                 ELSE IF objects_filter(ledger, u, c) = {}
                      THEN /\ begun \notin ledger
                           /\ begun.uuid \notin uuids(ledger)
                           /\ ledger' = ledger \cup {begun}
                           /\ objects_filter(ledger', u, c) = {begun}
                           /\ begun.user_full_name = user_full_name(u)
                           /\ begun.status = GENERATING
                           /\ begun.generation_task_id = t
                      ELSE ledger' = ledger]_vars

\* An attempt has begun on the certificate of an earlier attempt, which
\* held a former name of the learner and was AVAILABLE or INVALIDATED, and
\* the row now holds the current name under the identifier it had.
C26_Witness ==
    \E t \in 1..Len(tasks) :
        /\ tasks[t].pc = "generating"
        /\ tasks[t].certificate.uuid = earlier_certificate(GENERATING).uuid
        /\ tasks[t].certificate.download_url # NoUrl
        /\ tasks[t].certificate \in ledger
        /\ tasks[t].certificate.user_full_name # FormerName
        /\ Cardinality(ledger) = 1

\* C27: no two certificates share an identifier, and the certificate of a
\* triple keeps the identifier it was created with through every step:
\* attempts that find it again, renders that succeed or fail, invalidations.
C27_IdentifierNeverChanges ==
    /\ [](\A r1, r2 \in ledger : r1.uuid = r2.uuid => r1 = r2)
    /\ [][\A r \in ledger :
             \E kept \in ledger' : /\ same_triple(kept, r)
                                   /\ kept.uuid = r.uuid]_vars

\* A certificate whose first attempt failed has been generated by a second
\* attempt, under the same identifier.
C27_Witness ==
    \E t1, t2 \in 1..Len(tasks) :
        /\ tasks[t1].pc = "raised"
        /\ tasks[t2].pc = "done"
        /\ tasks[t1].certificate.uuid = tasks[t2].certificate.uuid
        /\ \E r \in ledger : /\ r.uuid = tasks[t2].certificate.uuid
                             /\ r.status = AVAILABLE

\* C28: when the generation function has raised, the attempt has ended by
\* raising, and what it raised is a CertificateGenerationError whose message
\* holds the identifier of the certificate, the id of the user and the id of
\* the configuration, and whose cause is the exception of the generation
\* function; and an attempt raises this error only then.
C28_FailureIsRaisedWithItsCause ==
    pdf_call.called =>
        \A t \in 1..Len(tasks) :
            IF pdf_call.result.raised # "none"
            THEN /\ tasks[t].pc = "raised"
                 /\ pdf_call.error.raised = "CertificateGenerationError"
                 /\ pdf_call.error.cause = pdf_call.result.raised
                 /\ pdf_call.error.message
                       = <<"Failed to generate the certificate.uuid=",
                           ToString(tasks[t].certificate.uuid),
                           " for user_id=", ToString(tasks[t].user_id),
                           " with self.id=", ToString(tasks[t].config_id),
                           ".">>
            ELSE /\ tasks[t].pc = "done"
                 /\ pdf_call.error = NoGenerationError

\* The generation function has raised for a missing asset, and the attempt
\* has raised the generation error with that exception as its cause.
C28_Witness ==
    /\ pdf_call.called
    /\ pdf_call.result.raised = "AssetNotFoundError"
    /\ pdf_call.error.raised = "CertificateGenerationError"
    /\ pdf_call.error.cause = "AssetNotFoundError"
    /\ \E t \in 1..Len(tasks) : tasks[t].pc = "raised"

\* Whether a row is the certificate of (user u, configuration c).
of_triple(r, u, c) ==
    /\ r.user_id = u
    /\ r.course_id = course_id(c)
    /\ r.certificate_type = certificate_type(c)

\* The attempts for (user u, configuration c).
attempts_for(u, c) ==
    {t \in 1..Len(tasks) : tasks[t].user_id = u /\ tasks[t].config_id = c}

\* C31: a step of an attempt leaves every certificate of another triple as
\* it is and adds or rewrites none but its own triple's; and a triple that a
\* single attempt has worked on, whatever attempts for other triples ran in
\* between, holds the one row that attempt alone makes: created for that
\* attempt, AVAILABLE with its URL when the attempt returned (until an
\* operator invalidates it), ERROR without URL when it raised.
C31_AttemptsTouchOnlyTheirTriple ==
    /\ [][\A t \in 1..Len(tasks) :
             tasks'[t] # tasks[t] =>
                /\ \A r \in ledger :
                      ~of_triple(r, tasks[t].user_id, tasks[t].config_id)
                         => r \in ledger'
                /\ \A r \in written_rows :
                      of_triple(r, tasks[t].user_id, tasks[t].config_id)]_vars
    /\ [](\A t \in 1..Len(tasks) :
             (/\ attempts_for(tasks[t].user_id, tasks[t].config_id) = {t}
              /\ tasks[t].pc \in {"generating", "done", "raised"}) =>
                \E r \in ledger :
                   /\ objects_filter(ledger, tasks[t].user_id,
                                     tasks[t].config_id) = {r}
                   /\ r.uuid = tasks[t].certificate.uuid
                   /\ r.generation_task_id = t
                   /\ r.user_full_name = user_full_name(tasks[t].user_id)
                   /\ tasks[t].pc = "generating" =>
                         r.status = GENERATING /\ r.download_url = NoUrl
                   /\ tasks[t].pc = "done" =>
                         /\ r.status \in {AVAILABLE, INVALIDATED}
                         /\ r.download_url = url_of(r.uuid)
                   /\ tasks[t].pc = "raised" =>
                         r.status = ERROR /\ r.download_url = NoUrl)

\* The attempt that created its certificate first is still rendering while
\* an attempt for another triple has created its own and returned.
C31_Witness ==
    \E t1, t2 \in 1..Len(tasks) :
        /\ <<tasks[t1].user_id, tasks[t1].config_id>>
              # <<tasks[t2].user_id, tasks[t2].config_id>>
        /\ tasks[t1].pc = "generating"
        /\ tasks[t2].pc = "done"
        /\ tasks[t1].certificate.uuid < tasks[t2].certificate.uuid
        /\ Cardinality(ledger) = 2

\* The row of the certificate an attempt holds, as the table has it.
row_of(rows, certificate) == CHOOSE r \in rows : r.uuid = certificate.uuid

\* C32: attempts for one existing certificate do not wait for each other:
\* while one is between its lookup and its last save, every step of the
\* other is possible; and each save of an attempt leaves the row exactly as
\* that attempt holds it, status, URL and task id, whatever the other wrote
\* since: GENERATING at its begin, AVAILABLE with its URL when its render
\* returned, ERROR with the URL it had looked up when its render raised.
C32_LastSaveWins ==
    /\ [](\A t1, t2 \in 1..Len(tasks) :
             (t1 # t2 /\ tasks[t1].pc \in {"found", "generating"}) =>
                /\ tasks[t2].pc = "queued" => ENABLED Lookup(t2)
                /\ tasks[t2].pc = "found" => ENABLED SaveGenerating(t2)
                /\ tasks[t2].pc = "generating" =>
                      ENABLED Generated(t2) /\ ENABLED GenerationFailed(t2))
    /\ [][\A t \in 1..Len(tasks) :
             (tasks'[t] # tasks[t] /\ tasks[t].pc \in {"found", "generating"}) =>
                LET held == tasks[t].certificate
                    row == row_of(ledger', held)
                IN  /\ Cardinality(rows_of(ledger', held.uuid)) = 1
                    /\ row.generation_task_id = t
                    /\ tasks'[t].pc = "generating" =>
                          /\ row.status = GENERATING
                          /\ row.download_url = held.download_url
                    /\ tasks'[t].pc = "done" =>
                          /\ row.status = AVAILABLE
                          /\ row.download_url = url_of(held.uuid)
                    /\ tasks'[t].pc = "raised" =>
                          /\ row.status = ERROR
                          /\ row.download_url = held.download_url]_vars

\* Two attempts found the certificate of an earlier attempt; one made it
\* AVAILABLE, the other failed afterwards, and the certificate is in ERROR.
C32_Witness ==
    \E t1, t2 \in 1..Len(tasks) :
        /\ tasks[t1].pc = "done"
        /\ tasks[t2].pc = "raised"
        /\ tasks[t1].certificate.uuid = existing_certificate(ERROR).uuid
        /\ tasks[t2].certificate.uuid = existing_certificate(ERROR).uuid
        /\ rendered[RaceUser][RaceConfig] = 1
        /\ \E r \in ledger : /\ r.uuid = existing_certificate(ERROR).uuid
                             /\ r.status = ERROR
                             /\ r.generation_task_id = t2

\* Whether a list holds no id twice.
duplicate_free(list) ==
    \A i, j \in 1..Len(list) : list[i] = list[j] => i = j

C34_TaskIdOfTheLastBegin ==
    [][\A t \in 1..Len(tasks) :
          (tasks'[t] # tasks[t] /\ tasks[t].pc \in {"found", "generating"}) =>
             LET held == tasks[t].certificate
                 before == row_of(ledger, held)
                 after == row_of(ledger', held)
             IN  IF tasks[t].pc = "found"
                 THEN /\ after.generation_task_id = t
                      /\ after.user_full_name = user_full_name(tasks[t].user_id)
                 ELSE /\ after.generation_task_id = before.generation_task_id
                      /\ after.user_full_name = before.user_full_name]_vars

\* Whether a source has a page that reports no next page.
source_ends(source) == \E p \in 1..Len(source) : ~source[p].next

\* C35: the call returns when the source has a page that reports no next
\* page, and only then: on a source that always reports a next page the
\* loop goes on fetching, past any number of pages a source has, and never
\* returns; and every fetch but the last asks for the page one above the
\* page of the fetch before it, starting from page 1.
C35_ReturnsIffSourceEnds ==
    /\ (source_ends(completions_call.source)
           ~> completions_call.pc = "returned")
    /\ [](~source_ends(completions_call.source) => completions_call.pc = "get")
    /\ (~source_ends(completions_call.source)
           ~> Len(completions_call.fetched) > MaxPages)
    /\ [](\A i \in 1..Len(completions_call.fetched) :
             completions_call.fetched[i].page = i)
    /\ [][Len(completions_call'.fetched) = Len(completions_call.fetched) + 1 =>
             \/ completions_call'.query_params.page
                   = completions_call.query_params.page + 1
             \/ completions_call'.pc = "filter"]_vars

\* On a source that never reports a last page, more pages have been fetched
\* than the source lists and the loop is still fetching.
C35_Witness ==
    /\ ~source_ends(completions_call.source)
    /\ Len(completions_call.fetched) > Len(completions_call.source)
    /\ completions_call.pc = "get"
    /\ completions_call.query_params.page
          = Len(completions_call.fetched) + 1

\* What _are_grades_passing_criteria gives for the i-th user of the batch,
\* with the required fractions as percentages under their lower-cased keys
\* and the weights of the policy under their lower-cased types.
passing_of(call, i) ==
    are_grades_passing_criteria(
        call.grades[i][2],
        [category \in {lower(key) : key \in DOMAIN call.options} |->
            100 * call.options[CHOOSE key \in DOMAIN call.options :
                                   lower(key) = category]],
        [category \in {lower(type) : type \in DOMAIN call.grading_policy} |->
            call.grading_policy[CHOOSE type \in DOMAIN call.grading_policy :
                                    lower(type) = category]])

\* C36: unless an evaluation raises, retrieve_subsection_grades returns the
\* ids of the users of the grades mapping for whom
\* _are_grades_passing_criteria holds, with the required fractions times 100
\* under lower-cased keys and the policy's weights under lower-cased types,
\* each once and in the order of the mapping.
C36_PassingUsersInOrder ==
    (/\ batch_call.called
     /\ \A i \in 1..Len(batch_call.grades) :
           passing_of(batch_call, i) # "ValueError") =>
        LET passing == {i \in 1..Len(batch_call.grades) :
                           passing_of(batch_call, i) = "True"}
            eligible_users == batch_call.result.eligible_users
        IN  /\ ~batch_call.result.raised
            /\ Len(eligible_users) = Cardinality(passing)
            /\ \A k \in 1..Len(eligible_users) :
                  \E i \in passing :
                     /\ eligible_users[k] = batch_call.grades[i][1]
                     /\ Cardinality({j \in passing : j < i}) = k - 1

\* With "Homework" required at 0.9 and weighted by the policy's "Homework",
\* the first user, at 30 percent, was left out and the second, at 90
\* percent, was returned.
C36_Witness ==
    /\ batch_call.called
    /\ ~batch_call.result.raised
    /\ "Homework" \in DOMAIN batch_call.options
    /\ batch_call.options["Homework"] = 90
    /\ "Homework" \in DOMAIN batch_call.grading_policy
    /\ Len(batch_call.grades) = 2
    /\ batch_call.grades[1][2] = <<<<"homework", 3000>>>>
    /\ batch_call.grades[2][2] = <<<<"homework", 9000>>>>
    /\ batch_call.result.eligible_users = <<batch_call.grades[2][1]>>

\* C37: after _save_certificate the storage holds one file under the path
\* of the certificate's identifier, the file just rendered, whether or not
\* a file was there before; every file under another name is there as it
\* was, and no other file has appeared.
C37_OneArtifactPerCertificate ==
    save_call.called =>
        LET path == <<"external_certificates/", save_call.certificate_uuid,
                      ".pdf">>
        IN  /\ {f \in save_call.files : f.name = path}
                  = {[name |-> path, content |-> save_call.certificate_file]}
            /\ {f \in save_call.files : f.name # path}
                  = {f \in save_call.before : f.name # path}

\* A certificate that had a file of an earlier render was saved again, next
\* to the file of another certificate.
C37_Witness ==
    /\ save_call.called
    /\ \E f \in save_call.before :
          /\ f.name = output_path(save_call.certificate_uuid)
          /\ f.content = "earlier"
    /\ \E f \in save_call.files :
          /\ f.name # output_path(save_call.certificate_uuid)
          /\ f.content = "earlier"
    /\ Cardinality(save_call.files) = Cardinality(save_call.before)

\* Whether the filter of configuration c drops user u as things are.
excluded_by_filter(u, c) ==
    u \notin filter_out_user_ids_with_certificates(ledger, c, <<u>>)

\* C38: the step that takes an attempt to its render leaves the certificate
\* saved as GENERATING, and for as long as an attempt is rendering,
\* filter_out_user_ids_with_certificates drops its user for its
\* configuration.
C38_ExcludedWhileRendering ==
    /\ [][\A t \in 1..Len(tasks) :
             (tasks[t].pc # "generating" /\ tasks'[t].pc = "generating") =>
                /\ tasks'[t].certificate \in ledger'
                /\ tasks'[t].certificate.status = GENERATING]_vars
    /\ [](\A t \in 1..Len(tasks) :
             tasks[t].pc = "generating" =>
                excluded_by_filter(tasks[t].user_id, tasks[t].config_id))

\* C39: in every reachable state a certificate that is AVAILABLE holds the
\* URL its render returned, which is not empty, and a certificate that is
\* GENERATING or in ERROR holds the empty URL.
C39_UrlFollowsStatus ==
    \A r \in ledger :
        /\ r.status = AVAILABLE =>
              r.download_url # NoUrl /\ r.download_url = url_of(r.uuid)
        /\ r.status \in {GENERATING, ERROR} => r.download_url = NoUrl

\* C40: of the first-time attempts for one triple that all found no record,
\* the create of the first inserts the row and goes on to render; every later
\* create is refused, ends its attempt there, leaves the ledger as it was and
\* never calls generation_func; so exactly one identifier is drawn and exactly
\* one row is created.
C40_OneCreateSucceeds ==
    /\ [][\A t \in 1..Len(tasks) :
             /\ (tasks[t].pc = "missing" /\ tasks'[t].pc # "missing") =>
                   IF objects_filter(ledger, RaceUser, RaceConfig) = {}
                   THEN /\ tasks'[t].pc = "generating"
                        /\ ledger' = ledger \cup {tasks'[t].certificate}
                        /\ tasks'[t].certificate.generation_task_id = t
                        /\ tasks'[t].certificate.status = GENERATING
                   ELSE /\ tasks'[t].pc = "integrity_error"
                        /\ ledger' = ledger
                        /\ rendered' = rendered
                        /\ render_failures' = render_failures
             /\ tasks[t].pc = "integrity_error" => tasks'[t] = tasks[t]]_vars
    /\ [](\A t \in 1..Len(tasks) :
             tasks[t].pc = "integrity_error" =>
                /\ uuid4 = 1
                /\ \E r \in ledger : ledger = {r} /\ r.uuid = uuid4)

\* Both attempts found no record; the first created the row and rendered it,
\* the second was refused.
C40_Witness ==
    \E t1, t2 \in 1..Len(tasks) :
        /\ tasks[t1].pc = "done"
        /\ tasks[t2].pc = "integrity_error"
        /\ \E r \in ledger : /\ r.generation_task_id = t1
                             /\ r.status = AVAILABLE
        /\ rendered[RaceUser][RaceConfig] = 1

====
